---- MODULE Spec2Model ----
(***************************************************************************)
(* A model of the storage abstraction of github.com/chartmuseum/storage    *)
(* (fork Hellysonrp/storage): the S3 and the local filesystem directory    *)
(* pagers, and the S3 rename (copy-then-delete) algorithm.                 *)
(*                                                                         *)
(* Paths and object keys are TLA+ strings; the Go string functions the     *)
(* code uses (strings.Trim, strings.TrimPrefix, path.Join, path.Clean) are *)
(* operators computed character by character.                              *)
(***************************************************************************)
EXTENDS Integers, Sequences, FiniteSets, TLC

(***************************************************************************)
(* Bounds of the model.                                                    *)
(***************************************************************************)
\* pages kept on the heap of one listing session
MaxPages == 4
\* listing sessions (ListObjectsFromDirectory calls) of one run
MaxListings == 1
\* RenamePrefixOrObject calls of one run
MaxRenames == 1
\* keys the store returns at most in one ListObjectsV2 response (S3: 1000)
S3MaxKeys == 2
\* copy/delete requests of one rename that are recorded (caps a rename that loops)
MaxCalls == 8
\* bytes of the longest object body that is downloaded
MaxBody == 2

(***************************************************************************)
(* Strings.                                                                *)
(***************************************************************************)
Min(a, b) == IF a < b THEN a ELSE b

CharAt(s, i) == SubSeq(s, i, i)

\* strings.HasPrefix
HasPrefix(s, p) == Len(s) >= Len(p) /\ SubSeq(s, 1, Len(p)) = p

\* strings.HasSuffix
HasSuffix(s, p) == Len(s) >= Len(p) /\ SubSeq(s, Len(s) - Len(p) + 1, Len(s)) = p

\* strings.TrimPrefix
TrimPrefix(s, p) == IF HasPrefix(s, p) THEN SubSeq(s, Len(p) + 1, Len(s)) ELSE s

\* strings.Contains(s, "/")
ContainsSlash(s) == \E i \in 1..Len(s) : CharAt(s, i) = "/"

RECURSIVE TrimLeftSlash(_)
TrimLeftSlash(s) ==
    IF Len(s) > 0 /\ CharAt(s, 1) = "/" THEN TrimLeftSlash(SubSeq(s, 2, Len(s))) ELSE s

RECURSIVE TrimRightSlash(_)
TrimRightSlash(s) ==
    IF Len(s) > 0 /\ CharAt(s, Len(s)) = "/"
    THEN TrimRightSlash(SubSeq(s, 1, Len(s) - 1))
    ELSE s

\* the elements of s between separators, empty elements included
RECURSIVE SplitSlash(_)
SplitSlash(s) ==
    IF ~ContainsSlash(s) THEN <<s>>
    ELSE LET i == CHOOSE k \in 1..Len(s) :
                      CharAt(s, k) = "/" /\ \A j \in 1..(k - 1) : CharAt(s, j) # "/"
         IN <<SubSeq(s, 1, i - 1)>> \o SplitSlash(SubSeq(s, i + 1, Len(s)))

RECURSIVE JoinSlash(_)
JoinSlash(segs) ==
    IF Len(segs) = 0 THEN ""
    ELSE IF Len(segs) = 1 THEN segs[1]
    ELSE segs[1] \o "/" \o JoinSlash(Tail(segs))

\* path.Clean's walk over the elements: "" and "." are dropped, ".." removes the
\* element before it (or is kept, in a relative path with nothing left to remove)
RECURSIVE CleanSegs(_, _, _)
CleanSegs(segs, out, rooted) ==
    IF Len(segs) = 0 THEN out
    ELSE LET e == Head(segs)
             rest == Tail(segs)
         IN IF e = "" \/ e = "." THEN CleanSegs(rest, out, rooted)
            ELSE IF e = ".."
                 THEN IF Len(out) > 0 /\ out[Len(out)] # ".."
                      THEN CleanSegs(rest, SubSeq(out, 1, Len(out) - 1), rooted)
                      ELSE IF rooted THEN CleanSegs(rest, out, rooted)
                           ELSE CleanSegs(rest, Append(out, e), rooted)
                 ELSE CleanSegs(rest, Append(out, e), rooted)

\* path.Clean
Clean(p) ==
    IF p = "" THEN "."
    ELSE LET rooted == CharAt(p, 1) = "/"
             body == JoinSlash(CleanSegs(SplitSlash(p), <<>>, rooted))
         IN IF rooted THEN "/" \o body
            ELSE IF body = "" THEN "." ELSE body

\* path.Join: the non-empty elements joined by "/" and cleaned; "" if there is none
Join(elems) ==
    LET nonEmpty == SelectSeq(elems, LAMBDA e : e # "")
    IN IF Len(nonEmpty) = 0 THEN "" ELSE Clean(JoinSlash(nonEmpty))

\* the last element of a path, trailing separators ignored
LastSegment(p) ==
    LET segs == SplitSlash(TrimRightSlash(p)) IN segs[Len(segs)]

\* byte order of the characters that occur in keys
Alphabet == "./abcdefghijklmnopqrstuvwxyz"

CharRank(c) == CHOOSE i \in 1..Len(Alphabet) : CharAt(Alphabet, i) = c

\* s sorts strictly before t in byte order (the order of an S3 listing)
RECURSIVE StrLess(_, _)
StrLess(s, t) ==
    IF Len(t) = 0 THEN FALSE
    ELSE IF Len(s) = 0 THEN TRUE
    ELSE IF CharAt(s, 1) = CharAt(t, 1)
         THEN StrLess(SubSeq(s, 2, Len(s)), SubSeq(t, 2, Len(t)))
         ELSE CharRank(CharAt(s, 1)) < CharRank(CharAt(t, 1))

\* the strings of a finite set in byte order
RECURSIVE SortStrings(_)
SortStrings(S) ==
    IF S = {} THEN <<>>
    ELSE LET m == CHOOSE x \in S : \A y \in S \ {x} : StrLess(x, y)
         IN <<m>> \o SortStrings(S \ {m})

SeqToSet(q) == {q[i] : i \in 1..Len(q)}

(***************************************************************************)
(* PathRules (amazon.go, the storage.go part).                             *)
(***************************************************************************)
cleanPrefix(prefix) == TrimRightSlash(TrimLeftSlash(prefix))

removePrefixFromObjectPath(prefix, path) ==
    IF prefix = "" THEN path
    ELSE TrimPrefix(path, IF HasSuffix(prefix, "/") THEN prefix ELSE prefix \o "/")

\* a variant: only the empty path is invalid
objectPathIsInvalid_EmptyOnly(path) == path = ""

objectPathIsInvalid(path) == ContainsSlash(path) \/ path = ""

(***************************************************************************)
(* Errors.  "nil" is Go's nil error, "EOF" is io.EOF.  "NotFound",         *)
(* "InvalidArgument" and "AwsErr" are awserr.Error values (the string is   *)
(* the code; "AwsErr" stands for every other service code), "OtherErr" is  *)
(* an error that is no awserr.Error.                                       *)
(***************************************************************************)
ErrPrefixIsAnObject == "ErrPrefixIsAnObject"
ErrNotImplemented == "ErrNotImplemented"
ErrNewPathNotEmpty == "ErrNewPathNotEmpty"
\* errors.New("you cannot call NextPage more than once")
ErrNextPageTwice == "you cannot call NextPage more than once"
\* errors.New("prefix is not a directory")
ErrNotADirectory == "prefix is not a directory"

IsAwsErr(e) ==
    e \in {"NotFound", "InvalidArgument", "AwsErr", "CopyErr", "DeleteErr",
           "NoSuchKey", "NotModified", "PreconditionFailed"}

\* what a request to the store can be made to fail with; the code never looks at what
\* a failed listing request failed with
S3Faults == {"none", "AwsErr", "OtherErr"}
ListFaults == {"none", "AwsErr"}

(***************************************************************************)
(* The S3 service, as its API documents it.  A bucket is a function from   *)
(* keys to contents.                                                       *)
(***************************************************************************)
EmptyBucket == [k \in {} |-> ""]

\* HeadObject: nil when the key exists, the NotFound service error when not
S3HeadObject(bkt, key, fault) ==
    IF fault # "none" THEN fault
    ELSE IF key \in DOMAIN bkt THEN "nil" ELSE "NotFound"

\* the listing entry a key is reported as: itself, or with a delimiter the common
\* prefix up to the first delimiter after the request's prefix
S3ItemOf(prefix, delimited, k) ==
    LET rest == SubSeq(k, Len(prefix) + 1, Len(k))
    IN IF delimited /\ ContainsSlash(rest)
       THEN [isPrefix |-> TRUE, name |-> prefix \o SplitSlash(rest)[1] \o "/", last |-> k]
       ELSE [isPrefix |-> FALSE, name |-> k, last |-> k]

\* the entries of a listing, in key order, each common prefix once
RECURSIVE S3RollUp(_, _, _, _)
S3RollUp(keys, prefix, delimited, out) ==
    IF Len(keys) = 0 THEN out
    ELSE LET it == S3ItemOf(prefix, delimited, Head(keys))
             n == Len(out)
         IN IF n > 0 /\ out[n].isPrefix /\ it.isPrefix /\ out[n].name = it.name
            THEN S3RollUp(Tail(keys), prefix, delimited, [out EXCEPT ![n].last = it.last])
            ELSE S3RollUp(Tail(keys), prefix, delimited, Append(out, it))

\* no MaxKeys in the request
NoMaxKeys == -1000

\* the response that returns the first n of the listing's entries
S3ListResponse(items, n, token) ==
    [err |-> "nil",
     Contents |-> SelectSeq(SubSeq(items, 1, Min(n, Len(items))), LAMBDA it : ~it.isPrefix),
     CommonPrefixes |-> SelectSeq(SubSeq(items, 1, Min(n, Len(items))),
                                  LAMBDA it : it.isPrefix),
     IsTruncated |-> n > 0 /\ Len(items) > n,
     NextContinuationToken |-> IF n > 0 /\ Len(items) > n THEN items[n].last ELSE "",
     ContinuationToken |-> token,
     KeyCount |-> Min(n, Len(items))]

S3ListFailure(err, token) ==
    [err |-> err, Contents |-> <<>>, CommonPrefixes |-> <<>>, IsTruncated |-> FALSE,
     NextContinuationToken |-> "", ContinuationToken |-> token, KeyCount |-> 0]

\* ListObjectsV2.  The keys with the prefix that sort after the continuation token,
\* rolled up, at most MaxKeys of them and never more than the service's own cap.
\* MaxKeys = 0 is answered with an empty listing that is not truncated, a negative
\* MaxKeys with the InvalidArgument error.  The continuation token is the last key
\* the response covers.
S3ListObjectsV2(bkt, prefix, delimited, maxKeys, token, fault) ==
    IF fault # "none" THEN S3ListFailure(fault, token)
    ELSE IF maxKeys # NoMaxKeys /\ maxKeys < 0 THEN S3ListFailure("InvalidArgument", token)
    ELSE S3ListResponse(
            S3RollUp(SortStrings({k \in DOMAIN bkt :
                        HasPrefix(k, prefix) /\ (token = "" \/ StrLess(token, k))}),
                     prefix, delimited, <<>>),
            IF maxKeys = NoMaxKeys THEN S3MaxKeys ELSE Min(maxKeys, S3MaxKeys),
            token)

\* CopyObject: the destination key gets the content of the source key
S3CopyObject(bkt, src, dst) ==
    IF src \in DOMAIN bkt
    THEN [k \in DOMAIN bkt \cup {dst} |-> IF k = dst THEN bkt[src] ELSE bkt[k]]
    ELSE bkt

\* DeleteObject: the key is gone; deleting a key that does not exist succeeds
S3DeleteObject(bkt, key) == [k \in DOMAIN bkt \ {key} |-> bkt[k]]

(***************************************************************************)
(* The local filesystem: a function from absolute paths to "file" or "dir".*)
(***************************************************************************)
\* LocalFilesystemBackend.RootDirectory (an absolute path, filepath.Abs)
RootDirectory == "/q"

\* the names in directory dir, in the order ReadDir reports them
DirEntries(tree, dir) ==
    SortStrings({LastSegment(p) : p \in {q \in DOMAIN tree :
                    HasPrefix(q, dir \o "/") /\ ~ContainsSlash(SubSeq(q, Len(dir) + 2, Len(q)))}})

\* (*os.File).ReadDir(n) on an open directory handle h = [path, pos]:
\* n > 0 gives at most n entries and io.EOF with no entry at the end of the directory,
\* n <= 0 gives all the remaining entries and a nil error
ReadDirOf(left, pos, n, fault) ==
    IF fault = "read" THEN [entries |-> <<>>, err |-> "IOErr", pos |-> pos]
    ELSE IF n > 0
    THEN [entries |-> SubSeq(left, 1, Min(n, Len(left))),
          err |-> IF Len(left) = 0 THEN "EOF" ELSE "nil",
          pos |-> pos + Min(n, Len(left))]
    ELSE [entries |-> left, err |-> "nil", pos |-> pos + Len(left)]

\* the entries of entries after the first pos
Remaining(entries, pos) == SubSeq(entries, pos + 1, Len(entries))

ReadDir(tree, h, n, fault) ==
    ReadDirOf(Remaining(DirEntries(tree, h.path), h.pos), h.pos, n, fault)

(***************************************************************************)
(* The directory pager.  A page is a record with the fields of             *)
(* s3ListObjectsFromDirectoryOutput and localListObjectsFromDirectoryOutput*)
(* (kind tells which); directory is the index of the open directory handle *)
(* (0: nil).  A NextPage call gives [page, r, err, l, lists, pos]: whether *)
(* a page is returned (or nil), the page, the error, the receiver after    *)
(* the call, the number of listing requests or directory reads issued, and *)
(* the position of the directory handle after the call.                    *)
(***************************************************************************)
\* a zero-valued page struct
NewPage(kind, prefix, limit, directory) ==
    [kind |-> kind, prefix |-> prefix, limit |-> limit,
     filesRead |-> <<>>, directoriesRead |-> <<>>,
     nextPageCalled |-> FALSE, isEOF |-> FALSE,
     continuationToken |-> "", directory |-> directory]

IsTruncated(l) == ~l.isEOF

\* the successor NextPage builds first: backend or directory, prefix and limit copied
Successor(l) == NewPage(l.kind, l.prefix, l.limit, l.directory)

\* the successor of an exhausted page, were it not marked exhausted
ExhaustedSuccessor_NotMarked(l) == Successor(l)

\* the successor of an exhausted page
ExhaustedSuccessor(l) == [Successor(l) EXCEPT !.isEOF = TRUE]

\* an entry's path as the S3 pager reports it: relative to the backend's prefix, with
\* a leading "/"
WithLeadingSlash(p) == IF HasPrefix(p, "/") THEN p ELSE "/" \o p

s3EntryPath(rootPrefix, key) == WithLeadingSlash(removePrefixFromObjectPath(rootPrefix, key))

\* the reported paths of a response's CommonPrefixes or Contents
RECURSIVE s3Entries(_, _)
s3Entries(rootPrefix, items) ==
    IF Len(items) = 0 THEN <<>>
    ELSE IF Head(items).name # "" /\ s3EntryPath(rootPrefix, Head(items).name) # "/"
    THEN <<s3EntryPath(rootPrefix, Head(items).name)>> \o s3Entries(rootPrefix, Tail(items))
    ELSE s3Entries(rootPrefix, Tail(items))

\* the request of the S3 pager: the cleaned directory key plus "/", the delimiter,
\* MaxKeys = limit whatever its sign, and the page's continuation token
s3PagerList(l, bkt, rootPrefix, fault) ==
    S3ListObjectsV2(bkt, cleanPrefix(Join(<<rootPrefix, l.prefix>>)) \o "/", TRUE,
                    l.limit, l.continuationToken, fault)

\* the page built from a successful response
s3PageOf(l, rootPrefix, output) ==
    [Successor(l) EXCEPT
        !.continuationToken = output.NextContinuationToken,
        !.directoriesRead = s3Entries(rootPrefix, output.CommonPrefixes),
        !.filesRead = s3Entries(rootPrefix, output.Contents),
        !.isEOF = ~output.IsTruncated]

\* the page returned, were io.EOF not returned with the last page
s3PageReturned_NoEOF(l, r) ==
    [page |-> TRUE, r |-> r, err |-> "nil",
     l |-> [l EXCEPT !.nextPageCalled = TRUE], lists |-> 1, pos |-> 0]

\* the receiver is marked and the page returned, with io.EOF when it is the last
s3PageReturned(l, r) ==
    [page |-> TRUE, r |-> r, err |-> IF r.isEOF THEN "EOF" ELSE "nil",
     l |-> [l EXCEPT !.nextPageCalled = TRUE], lists |-> 1, pos |-> 0]

\* a failed request returns nil and its error, the receiver as it was
s3Listed(l, rootPrefix, output) ==
    IF output.err # "nil"
    THEN [page |-> FALSE, r |-> l, err |-> output.err, l |-> l, lists |-> 1, pos |-> 0]
    ELSE s3PageReturned(l, s3PageOf(l, rootPrefix, output))

s3NextPage(l, bkt, rootPrefix, fault) ==
    IF l.nextPageCalled
    THEN [page |-> FALSE, r |-> l, err |-> ErrNextPageTwice, l |-> l, lists |-> 0, pos |-> 0]
    ELSE IF l.isEOF
    THEN [page |-> TRUE, r |-> ExhaustedSuccessor(l), err |-> "EOF", l |-> l,
          lists |-> 0, pos |-> 0]
    ELSE s3Listed(l, rootPrefix, s3PagerList(l, bkt, rootPrefix, fault))

\* isEOF of the local pager from the limit and ReadDir's error
localIsEOF(limit, err) == (limit > 0 /\ err = "EOF") \/ (limit <= 0 /\ err = "nil")

\* the entries of the wanted kind, each path the page's prefix joined with the name
RECURSIVE localEntries(_, _, _, _)
localEntries(prefix, tree, names, wantDir) ==
    IF Len(names) = 0 THEN <<>>
    ELSE IF (tree[Join(<<RootDirectory, prefix, Head(names)>>)] = "dir") = wantDir
    THEN <<Join(<<prefix, Head(names)>>)>> \o localEntries(prefix, tree, Tail(names), wantDir)
    ELSE localEntries(prefix, tree, Tail(names), wantDir)

\* the page built from what ReadDir returned: directories and files apart
localPageOf(l, tree, got) ==
    [Successor(l) EXCEPT
        !.directoriesRead = localEntries(l.prefix, tree, got.entries, TRUE),
        !.filesRead = localEntries(l.prefix, tree, got.entries, FALSE),
        !.isEOF = localIsEOF(l.limit, got.err)]

\* the receiver is marked and the page returned with ReadDir's error, or with io.EOF
\* when the page is the last and ReadDir gave no error
localPageReturned(l, isEOF, got, r) ==
    [page |-> TRUE, r |-> r, err |-> IF isEOF /\ got.err = "nil" THEN "EOF" ELSE got.err,
     l |-> [l EXCEPT !.nextPageCalled = TRUE], lists |-> 1, pos |-> got.pos]

localRead(l, tree, got) ==
    localPageReturned(l, localIsEOF(l.limit, got.err), got, localPageOf(l, tree, got))

localNextPage(l, tree, h, fault) ==
    IF l.nextPageCalled
    THEN [page |-> FALSE, r |-> l, err |-> ErrNextPageTwice, l |-> l, lists |-> 0,
          pos |-> h.pos]
    ELSE IF l.isEOF
    THEN [page |-> TRUE, r |-> ExhaustedSuccessor(l), err |-> "EOF", l |-> l,
          lists |-> 0, pos |-> h.pos]
    ELSE localRead(l, tree, ReadDir(tree, h, l.limit, fault))

\* what ListObjectsFromDirectory returns of its call of NextPage on the page it made
FromNextPage(n, opened) ==
    [page |-> n.page, r |-> n.r, err |-> n.err, lists |-> n.lists, pos |-> n.pos,
     opened |-> opened]

\* what ListObjectsFromDirectory returns without a call of NextPage
Direct(page, r, err, opened) ==
    [page |-> page, r |-> r, err |-> err, lists |-> 0, pos |-> 0, opened |-> opened]

\* AmazonS3Backend.ListObjectsFromDirectory after HeadObject.  A failed HeadObject
\* ends the call only when the error is an awserr.Error with a code other than
\* NotFound.
s3AfterHead(head, output, bkt, rootPrefix, listFault) ==
    IF head # "nil" /\ IsAwsErr(head) /\ head # "NotFound"
    THEN Direct(FALSE, output, head, FALSE)
    ELSE IF head = "nil"
    THEN Direct(FALSE, output, ErrPrefixIsAnObject, FALSE)
    ELSE FromNextPage(s3NextPage(output, bkt, rootPrefix, listFault), FALSE)

s3ListObjectsFromDirectory(bkt, rootPrefix, prefix, limit, headFault, listFault) ==
    s3AfterHead(S3HeadObject(bkt, cleanPrefix(Join(<<rootPrefix, prefix>>)), headFault),
                NewPage("s3", prefix, limit, 0), bkt, rootPrefix, listFault)

\* LocalFilesystemBackend.ListObjectsFromDirectory on the joined path.  opened tells
\* whether os.Open gave a file handle; pos is its position when the call returns.
localOpen(tree, fullPath, output, fault) ==
    IF fault = "open" THEN Direct(FALSE, output, "OpenErr", FALSE)
    ELSE IF fullPath \notin DOMAIN tree
    THEN Direct(TRUE, [output EXCEPT !.isEOF = TRUE], "nil", FALSE)
    ELSE IF fault = "stat" THEN Direct(FALSE, output, "StatErr", TRUE)
    ELSE IF tree[fullPath] # "dir" THEN Direct(FALSE, output, ErrNotADirectory, TRUE)
    ELSE FromNextPage(localNextPage([output EXCEPT !.directory = 1], tree,
                                    [path |-> fullPath, pos |-> 0], fault), TRUE)

localListObjectsFromDirectory(tree, prefix, limit, fault) ==
    localOpen(tree, Join(<<RootDirectory, prefix>>), NewPage("local", prefix, limit, 0),
              fault)

\* FreeFromMemory, were the continuation token dropped with the lists
FreeFromMemory_TokenToo(l) ==
    [l EXCEPT !.directoriesRead = <<>>, !.filesRead = <<>>, !.continuationToken = ""]

\* FreeFromMemory of both pagers
FreeFromMemory(l) == [l EXCEPT !.directoriesRead = <<>>, !.filesRead = <<>>]

(***************************************************************************)
(* State.                                                                  *)
(*   backend     which backend the program is configured with              *)
(*   rootPrefix  AmazonS3Backend.Prefix                                    *)
(*   bucket      the S3 bucket                                             *)
(*   fs          the local filesystem                                      *)
(*   handles     the directory handles opened in the listing session       *)
(*   pages       the pages the caller holds, in the order they were made   *)
(*   hist        per page: whether a NextPage call on it has returned, and *)
(*               the entries the pages of its chain have reported so far   *)
(*   ret         what the last call returned.  Of the pager: the operation,*)
(*               the page it was called on, its arguments, the page        *)
(*               returned (0: nil), the error, the listing requests or     *)
(*               directory reads it issued, whether a NextPage call on the *)
(*               same page had returned before, whether that page was      *)
(*               exhausted, and whether a request of the call was made to  *)
(*               fail.  Of a rename: its arguments, what path was taken    *)
(*               for, the error, whether it has returned (done), and the   *)
(*               requests made to fail                                     *)
(*   sessions    the number of ListObjectsFromDirectory calls made         *)
(*   rn          the RenamePrefixOrObject call in progress: its position   *)
(*               (idle: none; loop: at the head of the listing loop), its  *)
(*               arguments and locals, the copy or delete request that is  *)
(*               made to fail (failAt, 0: none), the renames started (n)   *)
(*   calls       the copy and delete requests the rename has issued        *)
(*   before      the bucket when the rename was called                     *)
(*   rw          the HTTP exchange of the last HandleHttpFileDownload call *)
(*   sd          the last GetObjectSliceDiff call: arguments and result    *)
(*   lo          the last call of ListObjects, of an operation of a        *)
(*               backend that does not implement it, or of the path        *)
(*               functions: arguments, requests issued and result          *)
(*   nx          a page shared by two callers of NextPage: the page, and   *)
(*               per caller its position in NextPage and what it got       *)
(***************************************************************************)
VARIABLES backend, rootPrefix, bucket, fs, handles, pages, hist, ret, sessions,
          rn, calls, before, rw, sd, lo, nx

vars == <<backend, rootPrefix, bucket, fs, handles, pages, hist, ret, sessions,
          rn, calls, before, rw, sd, lo, nx>>

\* the variables of the store, the pager and the rename
storeVars == <<backend, rootPrefix, bucket, fs, handles, pages, hist, ret, sessions,
               rn, calls, before>>

\* no download was handled, no slice diff computed
NoExchange == [op |-> "none"]
NoDiff == [op |-> "none"]
\* no call of ListObjects or of a path function, no page shared by two callers
NoListing == [op |-> "none"]
NoRace == [op |-> "none"]


\* the configured root prefixes that are tried
RootPrefixes == {"", "r"}

\* the paths a listing is asked for, and the page limits
ListPaths == {"d", "d/x", "e"}
Limits == {-1, 0, 1, 2}

\* what a call of the local backend can be made to fail at
LocalFaults == {"none", "open", "stat", "read"}

\* the bucket that holds the given paths (relative to the root prefix); the content of
\* an object is the path it was first stored at
BucketOf(root, paths) ==
    [k \in {Join(<<root, q>>) : q \in paths} |->
        CHOOSE q \in paths : Join(<<root, q>>) = k]

\* the proper ancestors of a relative path
Ancestors(q) ==
    LET segs == SplitSlash(q) IN {JoinSlash(SubSeq(segs, 1, i)) : i \in 1..(Len(segs) - 1)}

\* the filesystem under RootDirectory with the given regular files and directories
TreeOf(files, dirs) ==
    LET allDirs == dirs \cup UNION {Ancestors(q) : q \in files \cup dirs}
    IN [q \in {RootDirectory} \cup {Join(<<RootDirectory, e>>) : e \in files \cup allDirs} |->
          IF q \in {Join(<<RootDirectory, e>>) : e \in files} THEN "file" ELSE "dir"]

\* the objects of the S3 buckets listed, the files and the directories of the trees
PagerKeys == {"d", "d/x", "d/y", "d/s/z"}
LocalFiles == {"d", "d/x", "d/y", "d/s/z"}
LocalDirs == {"d", "d/s"}

\* a file is no directory and has nothing below it
Consistent(files, dirs) ==
    \A f \in files : f \notin dirs /\ \A q \in files \cup dirs : f \notin Ancestors(q)

NoRename == [pc |-> "idle", path |-> "", newPath |-> "", prefix |-> "",
             continuationToken |-> "", failAt |-> 0, n |-> 0]
NoRet == [op |-> "none", on |-> 0, prefix |-> "", limit |-> 0, page |-> 0, err |-> "nil",
          lists |-> 0, again |-> FALSE, wasEOF |-> FALSE, fault |-> FALSE]

InitPager ==
    /\ backend \in {"s3", "local"}
    /\ \/ /\ backend = "s3"
          /\ rootPrefix \in RootPrefixes
          /\ \E keys \in SUBSET PagerKeys : bucket = BucketOf(rootPrefix, keys)
          /\ fs = TreeOf({}, {})
       \/ /\ backend = "local"
          /\ rootPrefix = ""
          /\ bucket = EmptyBucket
          /\ \E files \in SUBSET LocalFiles, dirs \in SUBSET LocalDirs :
                /\ Consistent(files, dirs)
                /\ fs = TreeOf(files, dirs)
    /\ handles = <<>>
    /\ pages = <<>>
    /\ hist = <<>>
    /\ ret = NoRet
    /\ sessions = 0
    /\ rn = NoRename
    /\ calls = <<>>
    /\ before = EmptyBucket
    /\ rw = NoExchange
    /\ sd = NoDiff
    /\ lo = NoListing
    /\ nx = NoRace

\* the state after ListObjectsFromDirectory gave res: the caller holds the page
ListReturned(res, prefix, limit, faulted) ==
    /\ pages' = IF res.page THEN <<res.r>> ELSE <<>>
    /\ hist' = IF res.page
               THEN <<[called |-> FALSE, dirs |-> res.r.directoriesRead,
                       files |-> res.r.filesRead]>>
               ELSE <<>>
    /\ handles' = IF res.opened
                  THEN <<[path |-> Join(<<RootDirectory, prefix>>), pos |-> res.pos]>>
                  ELSE <<>>
    /\ ret' = [op |-> "ListObjectsFromDirectory", on |-> 0, prefix |-> prefix,
               limit |-> limit, page |-> IF res.page THEN 1 ELSE 0,
               err |-> res.err, lists |-> res.lists, again |-> FALSE, wasEOF |-> FALSE,
               fault |-> faulted]

ListObjectsFromDirectoryS3(prefix, limit, headFault, listFault) ==
    /\ backend = "s3"
    /\ sessions < MaxListings
    /\ sessions' = sessions + 1
    /\ ListReturned(s3ListObjectsFromDirectory(bucket, rootPrefix, prefix, limit,
                                               headFault, listFault),
                    prefix, limit, headFault # "none" \/ listFault # "none")
    /\ UNCHANGED <<backend, rootPrefix, bucket, fs, rn, calls, before>>
    /\ UNCHANGED <<rw, sd, lo, nx>>

ListObjectsFromDirectoryLocal(prefix, limit, fault) ==
    /\ backend = "local"
    /\ sessions < MaxListings
    /\ sessions' = sessions + 1
    /\ ListReturned(localListObjectsFromDirectory(fs, prefix, limit, fault), prefix, limit,
                    fault # "none")
    /\ UNCHANGED <<backend, rootPrefix, bucket, fs, rn, calls, before>>
    /\ UNCHANGED <<rw, sd, lo, nx>>

\* the state after a NextPage call on page i gave res
NextPageReturned(i, res, faulted) ==
    /\ pages' = IF res.page THEN Append([pages EXCEPT ![i] = res.l], res.r)
                ELSE [pages EXCEPT ![i] = res.l]
    /\ hist' = IF res.page
               THEN Append([hist EXCEPT ![i].called = TRUE],
                           [called |-> FALSE,
                            dirs |-> hist[i].dirs \o res.r.directoriesRead,
                            files |-> hist[i].files \o res.r.filesRead])
               ELSE [hist EXCEPT ![i].called = TRUE]
    /\ handles' = IF pages[i].directory = 0 THEN handles
                  ELSE [handles EXCEPT ![pages[i].directory].pos = res.pos]
    /\ ret' = [op |-> "NextPage", on |-> i, prefix |-> pages[i].prefix,
               limit |-> pages[i].limit,
               page |-> IF res.page THEN Len(pages) + 1 ELSE 0, err |-> res.err,
               lists |-> res.lists, again |-> hist[i].called, wasEOF |-> pages[i].isEOF,
               fault |-> faulted]

NextPageS3(i, fault) ==
    /\ i \in 1..Len(pages)
    /\ pages[i].kind = "s3"
    /\ Len(pages) < MaxPages
    /\ NextPageReturned(i, s3NextPage(pages[i], bucket, rootPrefix, fault), fault # "none")
    /\ UNCHANGED <<backend, rootPrefix, bucket, fs, sessions, rn, calls, before>>
    /\ UNCHANGED <<rw, sd, lo, nx>>

\* the directory handle of a page; a page of a path that does not exist has none
HandleOf(l) == IF l.directory = 0 THEN [path |-> "", pos |-> 0] ELSE handles[l.directory]

NextPageLocal(i, fault) ==
    /\ i \in 1..Len(pages)
    /\ pages[i].kind = "local"
    /\ Len(pages) < MaxPages
    /\ NextPageReturned(i, localNextPage(pages[i], fs, HandleOf(pages[i]), fault),
                        fault # "none")
    /\ UNCHANGED <<backend, rootPrefix, bucket, fs, sessions, rn, calls, before>>
    /\ UNCHANGED <<rw, sd, lo, nx>>

FreePage(i) ==
    /\ i \in 1..Len(pages)
    /\ pages' = [pages EXCEPT ![i] = FreeFromMemory(pages[i])]
    /\ UNCHANGED <<backend, rootPrefix, bucket, fs, handles, hist, ret, sessions, rn,
                   calls, before>>
    /\ UNCHANGED <<rw, sd, lo, nx>>

NextPager ==
    \/ \E prefix \in ListPaths, limit \in Limits, hf \in S3Faults, lf \in ListFaults :
          ListObjectsFromDirectoryS3(prefix, limit, hf, lf)
    \/ \E prefix \in ListPaths, limit \in Limits, f \in LocalFaults :
          ListObjectsFromDirectoryLocal(prefix, limit, f)
    \/ \E i \in 1..MaxPages, f \in ListFaults : NextPageS3(i, f)
    \/ \E i \in 1..MaxPages, f \in {"none", "read"} : NextPageLocal(i, f)
    \/ \E i \in 1..MaxPages : FreePage(i)

SpecPager == InitPager /\ [][NextPager]_vars

(***************************************************************************)
(* Properties of the directory pager.                                      *)
(***************************************************************************)
\* the key, or the absolute path, an argument of ListObjectsFromDirectory resolves to
DirKey(prefix) == cleanPrefix(Join(<<rootPrefix, prefix>>))
DirPath(prefix) == Join(<<RootDirectory, prefix>>)

\* what is stored directly below a directory: the parts of the keys (paths) after it
Below(prefix) ==
    IF backend = "s3"
    THEN {SubSeq(k, Len(DirKey(prefix)) + 2, Len(k)) :
             k \in {q \in DOMAIN bucket : HasPrefix(q, DirKey(prefix) \o "/")}}
    ELSE {SubSeq(k, Len(DirPath(prefix)) + 2, Len(k)) :
             k \in {q \in DOMAIN fs : HasPrefix(q, DirPath(prefix) \o "/")}}

\* the names of the files and of the subdirectories of a directory
ChildFiles(prefix) ==
    IF backend = "s3"
    THEN {q \in Below(prefix) : q # "" /\ ~ContainsSlash(q)}
    ELSE {q \in Below(prefix) : ~ContainsSlash(q) /\ fs[DirPath(prefix) \o "/" \o q] = "file"}
ChildDirs(prefix) ==
    IF backend = "s3"
    THEN {SplitSlash(q)[1] : q \in {b \in Below(prefix) : ContainsSlash(b)}}
    ELSE {q \in Below(prefix) : ~ContainsSlash(q) /\ fs[DirPath(prefix) \o "/" \o q] = "dir"}

\* the path resolves to a single object: an S3 key, a regular file
IsSingleObject(prefix) ==
    IF backend = "s3" THEN DirKey(prefix) \in DOMAIN bucket
    ELSE DirPath(prefix) \in DOMAIN fs /\ fs[DirPath(prefix)] = "file"

\* nothing exists at the path nor below it
NothingExists(prefix) ==
    IF backend = "s3" THEN DirKey(prefix) \notin DOMAIN bucket /\ Below(prefix) = {}
    ELSE DirPath(prefix) \notin DOMAIN fs

EntryNames(entries) == {LastSegment(entries[i]) : i \in 1..Len(entries)}
EachOnce(entries) == Cardinality(EntryNames(entries)) = Len(entries)
IsEmptyPage(l) == Len(l.directoriesRead) = 0 /\ Len(l.filesRead) = 0

\* C1 (as claimed): once a NextPage call on a page has returned, every later NextPage
\* call on that page returns an error and no successor page, whatever the state of
\* the page (fresh, truncated or exhausted).
C1_SingleUsePage ==
    ret.op = "NextPage" /\ ret.again => ret.page = 0 /\ ret.err # "nil"

\* C2 (as claimed): for every page limit, the pages from ListObjectsFromDirectory up
\* to the page at which IsTruncated() is false report, taken together, exactly the files
\* and the subdirectories of the directory, each exactly once.
C2_PaginationExhaustive ==
    \A i \in 1..Len(pages) :
        pages[i].isEOF =>
            /\ EachOnce(hist[i].files)
            /\ EachOnce(hist[i].dirs)
            /\ EntryNames(hist[i].files) = ChildFiles(pages[i].prefix)
            /\ EntryNames(hist[i].dirs) = ChildDirs(pages[i].prefix)

\* C8 (as claimed): ListObjectsFromDirectory on a path that resolves to a single
\* object (an S3 key, a regular file) returns ErrPrefixIsAnObject and no page, and
\* issues no listing request and no directory read.
C8_PrefixIsAnObject ==
    ret.op = "ListObjectsFromDirectory" /\ ~ret.fault /\ IsSingleObject(ret.prefix)
        => ret.err = ErrPrefixIsAnObject /\ ret.page = 0 /\ ret.lists = 0

C10_ExhaustedIsAbsorbing ==
    ret.op = "NextPage" /\ ret.wasEOF
        => /\ ret.page # 0
           /\ IsEmptyPage(pages[ret.page])
           /\ ~IsTruncated(pages[ret.page])
           /\ ret.err = "EOF"
           /\ ret.lists = 0
           /\ ~IsTruncated(pages[ret.on])

\* a successor of a successor of an exhausted page
C10_Witness ==
    /\ ret.op = "NextPage" /\ ret.wasEOF /\ ret.on = 2 /\ ret.page = 3
    /\ pages[1].isEOF

(***************************************************************************)
(* The S3 rename.  A rename carries st = [bucket, err, calls]: the bucket, *)
(* the error of the request that failed ("nil": none) and the copy and     *)
(* delete requests issued so far.  The request number failAt fails.        *)
(***************************************************************************)
Logged(op, src, key, ok) == [op |-> op, src |-> src, key |-> key, ok |-> ok]

\* CopyObject from key path to key newPath.  (CopySource is the escaped bucket/path,
\* which the service unescapes; the key copied from is path.)
s3Copy(st, path, newPath, failAt) ==
    IF Len(st.calls) + 1 = failAt
    THEN [st EXCEPT !.err = "CopyErr",
                    !.calls = Append(@, Logged("copy", path, newPath, FALSE))]
    ELSE [st EXCEPT !.bucket = S3CopyObject(@, path, newPath),
                    !.calls = Append(@, Logged("copy", path, newPath, TRUE))]

\* DeleteObject of a key
s3Delete(st, key, failAt) ==
    IF Len(st.calls) + 1 = failAt
    THEN [st EXCEPT !.err = "DeleteErr",
                    !.calls = Append(@, Logged("delete", "", key, FALSE))]
    ELSE [st EXCEPT !.bucket = S3DeleteObject(@, key),
                    !.calls = Append(@, Logged("delete", "", key, TRUE))]

\* AmazonS3Backend.DeleteObject(path): the key deleted is the backend's prefix joined
\* with path
DeleteObject(st, root, path, failAt) ==
    s3Delete(st, cleanPrefix(Join(<<root, path>>)), failAt)

\* moveObject after CopyObject, were the error of the copy not looked at
moveAfterCopy_ErrIgnored(st, root, path, failAt) == DeleteObject(st, root, path, failAt)

\* moveObject after CopyObject: a failed copy is returned, else the source is deleted
\* through DeleteObject
moveAfterCopy(st, root, path, failAt) ==
    IF st.err # "nil" THEN st ELSE DeleteObject(st, root, path, failAt)

\* AmazonS3Backend.moveObject(path, newPath), both of them keys
moveObject(st, root, path, newPath, failAt) ==
    moveAfterCopy(s3Copy(st, path, newPath, failAt), root, path, failAt)

\* the body of the loop over a listing's Contents for one object: keys "" and keys
\* that are the prefix itself are skipped, the others moved below newPath
moveKeyed(st, root, newPath, objKey, key, failAt) ==
    IF key = "" \/ key = "/" THEN st
    ELSE moveObject(st, root, objKey, cleanPrefix(Join(<<root, newPath, key>>)), failAt)

moveListed(st, root, prefix, newPath, objKey, failAt) ==
    IF objKey = "" THEN st
    ELSE moveKeyed(st, root, newPath, objKey, removePrefixFromObjectPath(prefix, objKey),
                   failAt)

\* the loop over a listing's Contents; it is left at the first error
RECURSIVE movePage(_, _, _, _, _, _)
movePage(st, root, prefix, newPath, contents, failAt) ==
    IF Len(contents) = 0 \/ st.err # "nil" THEN st
    ELSE movePage(moveListed(st, root, prefix, newPath, Head(contents).name, failAt),
                  root, prefix, newPath, Tail(contents), failAt)

\* a failed HeadObject ends the rename unless it is the NotFound service error
headEnds(head) == head # "nil" /\ (~IsAwsErr(head) \/ head # "NotFound")

\* a variant: a path at which no object is found is an error
pathProbed_NotFoundIsError(head) == IF head # "nil" THEN head ELSE "object"

\* is path an object or a prefix: the error to return, or "object", or "prefix"
pathProbed(head) ==
    IF headEnds(head) THEN head
    ELSE IF head = "nil" THEN "object" ELSE "prefix"

\* the probe of newPath as a prefix, were the count of the keys found not looked at
newPathListed_CountIgnored(output, bkt, root, path, pf) ==
    IF output.err # "nil" THEN output.err
    ELSE pathProbed(S3HeadObject(bkt, cleanPrefix(Join(<<root, path>>)), pf.head))

\* the probe of newPath as a prefix: one key below newPath + "/" is asked for
newPathListed(output, bkt, root, path, pf) ==
    IF output.err # "nil" THEN output.err
    ELSE IF output.KeyCount > 0 THEN ErrNewPathNotEmpty
    ELSE pathProbed(S3HeadObject(bkt, cleanPrefix(Join(<<root, path>>)), pf.head))

\* the probe of newPath as an object
newPathProbed(head, bkt, root, path, newPath, pf) ==
    IF headEnds(head) THEN head
    ELSE IF head = "nil" THEN ErrNewPathNotEmpty
    ELSE newPathListed(S3ListObjectsV2(bkt, cleanPrefix(Join(<<root, newPath>>)) \o "/",
                                       FALSE, 1, "", pf.listNew),
                       bkt, root, path, pf)

\* RenamePrefixOrObject up to the decision: the error it returns, or "object", or
\* "prefix"
renameProbe(bkt, root, path, newPath, pf) ==
    newPathProbed(S3HeadObject(bkt, cleanPrefix(Join(<<root, newPath>>)), pf.headNew),
                  bkt, root, path, newPath, pf)

\* the continuation token of the next listing request: the response's
\* ContinuationToken (the token of the request it answers) when it has one
nextToken(token, output) ==
    IF output.ContinuationToken # "" THEN output.ContinuationToken ELSE token

\* the paths a rename is asked for
RenamePaths == {"d", "e"}
\* the objects of the buckets renamed in
RenameKeys == {"d", "d/x", "d/y", "d/s/z", "e", "e/x", "dx"}

\* the requests of the probes that can be made to fail, at most one in a call
ProbeFaults ==
    {[headNew |-> "none", listNew |-> "none", head |-> "none"]}
    \cup {[headNew |-> f, listNew |-> "none", head |-> "none"] : f \in S3Faults}
    \cup {[headNew |-> "none", listNew |-> f, head |-> "none"] : f \in ListFaults}
    \cup {[headNew |-> "none", listNew |-> "none", head |-> f] : f \in S3Faults}

NoFault == [headNew |-> "none", listNew |-> "none", head |-> "none"]

InitRename ==
    /\ backend = "s3"
    /\ rootPrefix \in RootPrefixes
    /\ \E keys \in SUBSET RenameKeys : bucket = BucketOf(rootPrefix, keys)
    /\ fs = TreeOf({}, {})
    /\ handles = <<>>
    /\ pages = <<>>
    /\ hist = <<>>
    /\ ret = NoRet
    /\ sessions = 0
    /\ rn = NoRename
    /\ calls = <<>>
    /\ before = EmptyBucket
    /\ rw = NoExchange
    /\ sd = NoDiff
    /\ lo = NoListing
    /\ nx = NoRace

\* the call returns err: kind tells what path was taken for ("none": the call ended
\* in the probes), pf which probe was made to fail, fault whether a probe or a listing
\* request was
Returned(path, newPath, kind, err, pf, fault) ==
    [op |-> "RenamePrefixOrObject", path |-> path, newPath |-> newPath, kind |-> kind,
     err |-> err, done |-> TRUE, pf |-> pf, fault |-> fault]

\* the rename ends in the probes
RenameRefused(verdict, path, newPath, pf) ==
    /\ verdict \notin {"object", "prefix"}
    /\ ret' = Returned(path, newPath, "none", verdict, pf, pf # NoFault)
    /\ rn' = [NoRename EXCEPT !.n = rn.n + 1]
    /\ calls' = <<>>
    /\ bucket' = bucket

\* path is an object: one moveObject
RenameObject(verdict, st, path, newPath, pf) ==
    /\ verdict = "object"
    /\ ret' = Returned(path, newPath, "object", st.err, pf, pf # NoFault)
    /\ rn' = [NoRename EXCEPT !.n = rn.n + 1]
    /\ calls' = st.calls
    /\ bucket' = st.bucket

\* path is no object: the listing loop is entered
RenamePrefix(verdict, path, newPath, failAt, pf) ==
    /\ verdict = "prefix"
    /\ ret' = [Returned(path, newPath, "prefix", "nil", pf, pf # NoFault) EXCEPT !.done = FALSE]
    /\ rn' = [pc |-> "loop", path |-> path, newPath |-> newPath,
              prefix |-> cleanPrefix(Join(<<rootPrefix, path>>)) \o "/",
              continuationToken |-> "", failAt |-> failAt, n |-> rn.n + 1]
    /\ calls' = <<>>
    /\ bucket' = bucket

RenameBegin(path, newPath, pf, failAt) ==
    /\ backend = "s3"
    /\ rn.pc = "idle"
    /\ rn.n < MaxRenames
    /\ before' = bucket
    /\ \/ RenameRefused(renameProbe(bucket, rootPrefix, path, newPath, pf), path, newPath, pf)
       \/ RenameObject(renameProbe(bucket, rootPrefix, path, newPath, pf),
                       moveObject([bucket |-> bucket, err |-> "nil", calls |-> <<>>],
                                  rootPrefix, cleanPrefix(Join(<<rootPrefix, path>>)),
                                  cleanPrefix(Join(<<rootPrefix, newPath>>)), failAt),
                       path, newPath, pf)
       \/ RenamePrefix(renameProbe(bucket, rootPrefix, path, newPath, pf), path, newPath,
                       failAt, pf)
    /\ UNCHANGED <<backend, rootPrefix, fs, handles, pages, hist, sessions>>
    /\ UNCHANGED <<rw, sd, lo, nx>>

\* the loop's listing request failed, or a copy or a delete of the page failed, or the
\* page was the last: the call returns
RenameReturns(err, st, fault) ==
    /\ ret' = Returned(rn.path, rn.newPath, "prefix", err, ret.pf, ret.fault \/ fault)
    /\ rn' = [NoRename EXCEPT !.n = rn.n]
    /\ calls' = st.calls
    /\ bucket' = st.bucket

\* the page is moved and the listing was truncated: the loop goes on
RenameLoops(output, st) ==
    /\ ret' = ret
    /\ rn' = [rn EXCEPT !.continuationToken = nextToken(rn.continuationToken, output)]
    /\ calls' = st.calls
    /\ bucket' = st.bucket

\* one pass of the loop, given the listing's response and the state after its Contents
\* were moved
RenamePass(output, st, fault) ==
    \/ /\ output.err # "nil"
       /\ RenameReturns(output.err, [bucket |-> bucket, calls |-> calls], fault)
    \/ /\ output.err = "nil" /\ st.err # "nil"
       /\ RenameReturns(st.err, st, fault)
    \/ /\ output.err = "nil" /\ st.err = "nil" /\ ~output.IsTruncated
       /\ RenameReturns("nil", st, fault)
    \/ /\ output.err = "nil" /\ st.err = "nil" /\ output.IsTruncated
       /\ RenameLoops(output, st)

\* the request of the listing loop: all the keys below path + "/", no MaxKeys
renameList(fault) ==
    S3ListObjectsV2(bucket, rn.prefix, FALSE, NoMaxKeys, rn.continuationToken, fault)

RenameListPage(fault) ==
    /\ rn.pc = "loop"
    /\ Len(calls) < MaxCalls
    /\ RenamePass(renameList(fault),
                  movePage([bucket |-> bucket, err |-> "nil", calls |-> calls], rootPrefix,
                           rn.prefix, rn.newPath, renameList(fault).Contents, rn.failAt),
                  fault # "none")
    /\ UNCHANGED <<backend, rootPrefix, fs, handles, pages, hist, sessions, before>>
    /\ UNCHANGED <<rw, sd, lo, nx>>

NextRename ==
    \/ \E path \in RenamePaths, newPath \in RenamePaths, pf \in ProbeFaults,
          failAt \in 0..MaxCalls : RenameBegin(path, newPath, pf, failAt)
    \/ \E f \in ListFaults : RenameListPage(f)

SpecRename == InitRename /\ [][NextRename]_vars

(***************************************************************************)
(* The rename's properties.                                                *)
(***************************************************************************)
\* the keys of a bucket below a path
UnderKeys(bkt, p) == {k \in DOMAIN bkt : HasPrefix(k, DirKey(p) \o "/")}
\* the key an object below path has below newPath
MovedKey(p, q, k) == DirKey(q) \o SubSeq(k, Len(DirKey(p)) + 1, Len(k))
Occupied(bkt, p) == DirKey(p) \in DOMAIN bkt \/ UnderKeys(bkt, p) # {}
RenameDone == ret.op = "RenamePrefixOrObject" /\ ret.done
AllSucceeded == \A i \in 1..Len(calls) : calls[i].ok
\* the keys the rename has copied from and then deleted
Processed == {calls[i].src : i \in {j \in 1..(Len(calls) - 1) :
                                       calls[j].op = "copy" /\ calls[j + 1].ok}}
Attempted == {calls[i].src : i \in {j \in 1..Len(calls) : calls[j].op = "copy"}}

\* C3: a rename of a non-empty prefix to an unoccupied path in which no request fails
\* returns nil, every object formerly at path/k is at newPath/k with its content, and
\* nothing is left below path, whatever the backend's prefix.
C3_RenameDirectory ==
    /\ RenameDone /\ ~ret.fault /\ AllSucceeded
    /\ DirKey(ret.path) \notin DOMAIN before /\ UnderKeys(before, ret.path) # {}
    /\ ~Occupied(before, ret.newPath)
    => /\ ret.err = "nil"
       /\ \A k \in UnderKeys(before, ret.path) :
            /\ MovedKey(ret.path, ret.newPath, k) \in DOMAIN bucket
            /\ bucket[MovedKey(ret.path, ret.newPath, k)] = before[k]
       /\ UnderKeys(bucket, ret.path) = {}

\* C4: a rename of an existing object to an unoccupied path issues one copy from the
\* key of path to the key of newPath, then one delete of the key of path; when both
\* succeed the object is at newPath and no longer at path, whatever the backend's prefix.
C4_RenameSingleObject ==
    /\ RenameDone /\ ~ret.fault
    /\ DirKey(ret.path) \in DOMAIN before /\ ~Occupied(before, ret.newPath)
    => /\ Len(calls) \in {1, 2}
       /\ calls[1] = Logged("copy", DirKey(ret.path), DirKey(ret.newPath), calls[1].ok)
       /\ calls[1].ok => /\ Len(calls) = 2
                         /\ calls[2] = Logged("delete", "", DirKey(ret.path), calls[2].ok)
       /\ AllSucceeded => /\ ret.err = "nil"
                          /\ DirKey(ret.newPath) \in DOMAIN bucket
                          /\ bucket[DirKey(ret.newPath)] = before[DirKey(ret.path)]
                          /\ DirKey(ret.path) \notin DOMAIN bucket

\* C5: a rename to a path at which an object exists, or below which one does, returns
\* ErrNewPathNotEmpty (the requests that look for them being answered), and a rename
\* that returns it has issued no copy and no delete and left the bucket as it was.
C5_RenameCollision ==
    ret.op = "RenamePrefixOrObject" =>
       /\ /\ ret.pf.headNew = "none"
          /\ \/ DirKey(ret.newPath) \in DOMAIN before
             \/ ret.pf.listNew = "none" /\ UnderKeys(before, ret.newPath) # {}
          => ret.done /\ ret.err = ErrNewPathNotEmpty
       /\ ret.err = ErrNewPathNotEmpty
          => /\ ret.done /\ Occupied(before, ret.newPath)
             /\ calls = <<>>
             /\ bucket = before

C5_Witness ==
    /\ RenameDone /\ ret.err = ErrNewPathNotEmpty /\ rootPrefix # ""
    /\ DirKey(ret.newPath) \notin DOMAIN before /\ UnderKeys(before, ret.newPath) # {}
    /\ DirKey(ret.path) \in DOMAIN before /\ ret.path # ret.newPath

\* C6: a delete is issued only after the copy before it succeeded; a failed copy or
\* delete is the last request of the rename and its error is returned; after a failed
\* copy the source is still there (and the bucket untouched when it was the first
\* request), after a failed delete the object is at the source and at the destination.
C6_CopyThenDelete ==
    ret.op = "RenamePrefixOrObject" =>
       \A i \in 1..Len(calls) :
          /\ calls[i].op = "delete"
             => i > 1 /\ calls[i - 1].op = "copy" /\ calls[i - 1].ok
          /\ ~calls[i].ok
             => /\ i = Len(calls) /\ ret.done
                /\ ret.err = (IF calls[i].op = "copy" THEN "CopyErr" ELSE "DeleteErr")
          /\ ~calls[i].ok /\ calls[i].op = "copy"
             => /\ calls[i].src \in DOMAIN bucket
                /\ i = 1 => bucket = before
          /\ ~calls[i].ok /\ calls[i].op = "delete"
             => /\ calls[i - 1].src \in DOMAIN bucket
                /\ calls[i - 1].key \in DOMAIN bucket
                /\ bucket[calls[i - 1].key] = bucket[calls[i - 1].src]

C6_Witness ==
    /\ RenameDone /\ ret.kind = "prefix" /\ ret.err = "DeleteErr" /\ Len(calls) = 4
    /\ calls[3].key \in DOMAIN bucket /\ calls[3].src \in DOMAIN bucket

\* C7: a rename of a prefix in which a copy or a delete fails returns that error and
\* issues no further request; the objects processed before are below newPath and no
\* longer below path, the objects not reached are below path as they were.
C7_StopsCleanly ==
    RenameDone /\ ret.kind = "prefix" /\ ~AllSucceeded =>
       /\ \A i \in 1..Len(calls) : ~calls[i].ok => i = Len(calls)
       /\ ret.err = (IF calls[Len(calls)].op = "copy" THEN "CopyErr" ELSE "DeleteErr")
       /\ \A k \in Processed :
            /\ MovedKey(ret.path, ret.newPath, k) \in DOMAIN bucket
            /\ k \notin DOMAIN bucket
       /\ \A k \in UnderKeys(before, ret.path) \ Attempted :
            k \in DOMAIN bucket /\ bucket[k] = before[k]

(***************************************************************************)
(* HTTP delivery.  Strings and numbers of the headers.                     *)
(***************************************************************************)
Digits == "0123456789"
IsDigit(c) == \E i \in 1..Len(Digits) : CharAt(Digits, i) = c
DigitValue(c) == (CHOOSE i \in 1..Len(Digits) : CharAt(Digits, i) = c) - 1

\* the value of a string of decimal digits, read from the left
RECURSIVE DigitsValue(_, _)
DigitsValue(s, acc) ==
    IF Len(s) = 0 THEN acc
    ELSE DigitsValue(SubSeq(s, 2, Len(s)), 10 * acc + DigitValue(CharAt(s, 1)))

AllDigits(s) == Len(s) > 0 /\ \A i \in 1..Len(s) : IsDigit(CharAt(s, i))

\* strconv.ParseInt(s, 10, 64): an optional sign, then one decimal digit or more and
\* nothing else (the strings tried are far from the 64-bit range)
Unsigned(s) ==
    IF Len(s) > 0 /\ CharAt(s, 1) \in {"+", "-"} THEN SubSeq(s, 2, Len(s)) ELSE s
ParseInt(s) ==
    IF ~AllDigits(Unsigned(s)) THEN [ok |-> FALSE, n |-> 0]
    ELSE [ok |-> TRUE,
          n |-> IF CharAt(s, 1) = "-" THEN 0 - DigitsValue(Unsigned(s), 0)
                ELSE DigitsValue(Unsigned(s), 0)]

\* strconv.FormatInt(n, 10)
RECURSIVE FormatUint(_)
FormatUint(n) ==
    IF n < 10 THEN CharAt(Digits, n + 1)
    ELSE FormatUint(n \div 10) \o CharAt(Digits, (n % 10) + 1)
FormatInt(n) == IF n < 0 THEN "-" \o FormatUint(0 - n) ELSE FormatUint(n)

\* strings.TrimSpace (the white space of the strings tried is the space)
RECURSIVE TrimSpace(_)
TrimSpace(s) ==
    IF Len(s) > 0 /\ CharAt(s, 1) = " " THEN TrimSpace(SubSeq(s, 2, Len(s)))
    ELSE IF Len(s) > 0 /\ CharAt(s, Len(s)) = " " THEN TrimSpace(SubSeq(s, 1, Len(s) - 1))
    ELSE s

\* the HTTP-dates tried, in http.TimeFormat; the time of each is its position
TimeFormatDates ==
    <<"Mon, 02 Jan 2006 15:04:05 GMT", "Tue, 03 Jan 2006 15:04:05 GMT",
      "Wed, 04 Jan 2006 15:04:05 GMT">>
\* the same times in the two other layouts http.ParseTime accepts (RFC 850, ANSI C)
Rfc850Dates ==
    <<"Monday, 02-Jan-06 15:04:05 GMT", "Tuesday, 03-Jan-06 15:04:05 GMT",
      "Wednesday, 04-Jan-06 15:04:05 GMT">>
AnsiCDates ==
    <<"Mon Jan  2 15:04:05 2006", "Tue Jan  3 15:04:05 2006", "Wed Jan  4 15:04:05 2006">>

\* the position of a string in a sequence, 0 when it is not in it
IndexOf(q, s) ==
    IF \E i \in 1..Len(q) : q[i] = s THEN CHOOSE i \in 1..Len(q) : q[i] = s ELSE 0

\* http.ParseTime: the three layouts are tried in turn
ParseTime(s) ==
    IF IndexOf(TimeFormatDates, s) # 0 THEN [ok |-> TRUE, t |-> IndexOf(TimeFormatDates, s)]
    ELSE IF IndexOf(Rfc850Dates, s) # 0 THEN [ok |-> TRUE, t |-> IndexOf(Rfc850Dates, s)]
    ELSE IF IndexOf(AnsiCDates, s) # 0 THEN [ok |-> TRUE, t |-> IndexOf(AnsiCDates, s)]
    ELSE [ok |-> FALSE, t |-> 0]

\* t.UTC().Format(http.TimeFormat)
FormatTime(t) == TimeFormatDates[t]

(***************************************************************************)
(* http.ResponseWriter.  status is the status line committed (0: none      *)
(* yet), ignored counts the WriteHeader calls made after it was committed, *)
(* header is the set of the name and value pairs added, body the bytes     *)
(* written.                                                                *)
(***************************************************************************)
StatusOK == 200
StatusPartialContent == 206
StatusNotModified == 304
StatusBadRequest == 400
StatusNotFound == 404
StatusPreconditionFailed == 412
StatusInternalServerError == 500

NewResponseWriter == [status |-> 0, ignored |-> 0, header |-> {}, body |-> ""]

\* WriteHeader: the first call commits the status line, every later call is ignored
WriteHeader(w, code) ==
    IF w.status # 0 THEN [w EXCEPT !.ignored = @ + 1] ELSE [w EXCEPT !.status = code]

\* Header().Add
HeaderAdd(w, name, value) == [w EXCEPT !.header = @ \cup {<<name, value>>}]

\* the bytes are appended to a response whose status line is committed
Written(w, bytes) == [w EXCEPT !.body = @ \o bytes]

\* Write: a call made before any WriteHeader commits 200 first
Write(w, bytes) == Written(IF w.status = 0 THEN WriteHeader(w, StatusOK) ELSE w, bytes)

\* io.Copy(w, body) when the body's Read gives cut bytes and then io.EOF (cut is the
\* length of the body) or an error: Write is called when there are bytes
CopyBody(w, body, cut) == IF cut > 0 THEN Write(w, SubSeq(body, 1, cut)) ELSE w

(***************************************************************************)
(* The S3 download handler.  A request is the method and the four          *)
(* conditional headers ("": absent).  What the service holds for the key   *)
(* is a GetObjectOutput: optional fields are <<>> (nil) or <<value>>.      *)
(***************************************************************************)
\* GetObject.  The preconditions are evaluated as the service does: If-Match, else
\* If-Unmodified-Since, give PreconditionFailed; If-None-Match, else If-Modified-Since,
\* give NotModified.
S3Preconditions(out, ims, ius, ifMatch, ifNoneMatch) ==
    IF ifMatch # "" /\ out.ETag # <<ifMatch>> THEN "PreconditionFailed"
    ELSE IF ifMatch = "" /\ ius.ok /\ Len(out.LastModified) > 0 /\ out.LastModified[1] > ius.t
    THEN "PreconditionFailed"
    ELSE IF ifNoneMatch # "" /\ out.ETag = <<ifNoneMatch>> THEN "NotModified"
    ELSE IF ifNoneMatch = "" /\ ims.ok /\ Len(out.LastModified) > 0
            /\ out.LastModified[1] <= ims.t
    THEN "NotModified"
    ELSE "nil"

S3GetObject(bkt, key, out, input, fault) ==
    IF fault # "none" THEN fault
    ELSE IF key \notin DOMAIN bkt THEN "NoSuchKey"
    ELSE S3Preconditions(out, input.IfModifiedSince, input.IfUnmodifiedSince,
                         input.IfMatch, input.IfNoneMatch)

\* a time pointer of the GetObjectInput: nil (ok = FALSE) when the header is absent
TimeInput(header) == IF header = "" THEN [ok |-> FALSE, t |-> 0] ELSE ParseTime(header)

\* what a call of the handler did: the response, the GetObject calls made, the error
\* of GetObject ("none": not called), whether copying the body failed, whether the
\* body of the result was closed, whether the call panicked
Handled(w, getObject, err, copyErr, closed, panicked) ==
    [w |-> w, getObject |-> getObject, err |-> err, copyErr |-> copyErr,
     closed |-> closed, panicked |-> panicked]

\* a variant: an error that is no AWS error is a server error
s3ErrorStatus_OtherIs500(err) ==
    IF IsAwsErr(err)
    THEN CASE err = "NoSuchKey" -> StatusNotFound
           [] err = "NotModified" -> StatusNotModified
           [] err = "PreconditionFailed" -> StatusPreconditionFailed
           [] OTHER -> StatusBadRequest
    ELSE StatusInternalServerError

\* the status of a failed GetObject
s3ErrorStatus(err) ==
    IF IsAwsErr(err)
    THEN CASE err = "NoSuchKey" -> StatusNotFound
           [] err = "NotModified" -> StatusNotModified
           [] err = "PreconditionFailed" -> StatusPreconditionFailed
           [] OTHER -> StatusBadRequest
    ELSE StatusBadRequest

\* 206 when the total size parsed from the Content-Range is not the Content-Length
s3TotalStatus(total, contentLength) ==
    IF total.ok /\ total.n # contentLength THEN StatusPartialContent ELSE StatusOK

s3SplitStatus(parts, contentLength) ==
    IF Len(parts) > 1 THEN s3TotalStatus(ParseInt(TrimSpace(parts[2])), contentLength)
    ELSE StatusOK

\* httpStatus of a result
s3HttpStatus(out) ==
    IF Len(out.ContentRange) > 0 /\ Len(out.ContentRange[1]) > 0 /\ Len(out.ContentLength) > 0
    THEN s3SplitStatus(SplitSlash(out.ContentRange[1]), out.ContentLength[1])
    ELSE StatusOK

\* the headers set from the result, the fields that are not nil
s3Headers(w, out) ==
    [w EXCEPT !.header = @
        \cup {<<"Cache-Control", out.CacheControl[i]>> : i \in 1..Len(out.CacheControl)}
        \cup {<<"Expires", out.Expires[i]>> : i \in 1..Len(out.Expires)}
        \cup {<<"Content-Disposition", out.ContentDisposition[i]>> :
                 i \in 1..Len(out.ContentDisposition)}
        \cup {<<"Content-Encoding", out.ContentEncoding[i]>> :
                 i \in 1..Len(out.ContentEncoding)}
        \cup {<<"Content-Language", out.ContentLanguage[i]>> :
                 i \in 1..Len(out.ContentLanguage)}
        \cup {<<"Content-Length", FormatInt(out.ContentLength[i])>> :
                 i \in 1..Len(out.ContentLength)}
        \cup {<<"Content-Range", out.ContentRange[i]>> : i \in 1..Len(out.ContentRange)}
        \cup {<<"Content-Type", out.ContentType[i]>> : i \in 1..Len(out.ContentType)}
        \cup {<<"ETag", out.ETag[i]>> : i \in 1..Len(out.ETag)}
        \cup {<<"Last-Modified", FormatTime(out.LastModified[i])>> :
                 i \in 1..Len(out.LastModified)}]

\* after io.Copy: a failed copy ends the call with WriteHeader(500), else the status
\* of the result is written
s3Copied(w, out, failed) ==
    IF failed THEN Handled(WriteHeader(w, StatusInternalServerError), 1, "nil", TRUE, TRUE,
                           FALSE)
    ELSE Handled(WriteHeader(w, s3HttpStatus(out)), 1, "nil", FALSE, TRUE, FALSE)

\* a variant: the body is copied whatever the method
s3Deliver_HeadCopied(w, method, out, cut) ==
    s3Copied(CopyBody(w, out.Body, cut), out, cut < Len(out.Body))

\* the body is copied unless the method is HEAD; cut bytes of it can be read
s3Deliver(w, method, out, cut) ==
    IF method # "HEAD" THEN s3Copied(CopyBody(w, out.Body, cut), out, cut < Len(out.Body))
    ELSE s3Copied(w, out, FALSE)

\* after GetObject
s3Got(err, method, out, cut) ==
    IF err # "nil"
    THEN Handled(WriteHeader(NewResponseWriter, s3ErrorStatus(err)), 1, err, FALSE, FALSE,
                 FALSE)
    ELSE s3Deliver(s3Headers(NewResponseWriter, out), method, out, cut)

\* a variant: no date header is refused
BadDate_Never(header) == FALSE

\* a conditional date header that is there and is no HTTP-date
BadDate(header) == header # "" /\ ~ParseTime(header).ok

\* AmazonS3Backend.HandleHttpFileDownload
s3HandleHttpFileDownload(bkt, root, req, path, out, fault, cut) ==
    IF BadDate(req.IfModifiedSince) \/ BadDate(req.IfUnmodifiedSince)
    THEN Handled(WriteHeader(NewResponseWriter, StatusBadRequest), 0, "none", FALSE, FALSE,
                 FALSE)
    ELSE s3Got(S3GetObject(bkt, cleanPrefix(Join(<<root, path>>)), out,
                           [IfModifiedSince |-> TimeInput(req.IfModifiedSince),
                            IfUnmodifiedSince |-> TimeInput(req.IfUnmodifiedSince),
                            IfMatch |-> req.IfMatch, IfNoneMatch |-> req.IfNoneMatch],
                           fault),
               req.Method, out, cut)

(***************************************************************************)
(* The local download handlers: the handler of unnamed/part_003 and the    *)
(* handler of local.go.  An ObjectStream is [err, content, opened]: the    *)
(* error of GetObjectStream, what Content is ("nil", "file" or "dir"), and *)
(* whether os.Open gave a file handle.                                     *)
(***************************************************************************)
Stream(err, content, opened) == [err |-> err, content |-> content, opened |-> opened]

\* LocalFilesystemBackend.GetObjectStream of unnamed/part_003: Content is set last
localGetObjectStream(tree, fullpath, fault) ==
    IF fault = "open" THEN Stream("OpenErr", "nil", FALSE)
    ELSE IF fullpath \notin DOMAIN tree THEN Stream("NotExist", "nil", FALSE)
    ELSE IF fault = "stat" THEN Stream("StatErr", "nil", TRUE)
    ELSE IF tree[fullpath] = "dir" THEN Stream("IsDirErr", "nil", TRUE)
    ELSE Stream("nil", "file", TRUE)

\* LocalFilesystemBackend.GetObjectStream of local.go: Content is set before Stat, and
\* a directory is returned as any file is
localGoGetObjectStream(tree, fullpath, fault) ==
    IF fault = "open" THEN Stream("OpenErr", "nil", FALSE)
    ELSE IF fullpath \notin DOMAIN tree THEN Stream("NotExist", "nil", FALSE)
    ELSE IF fault = "stat" THEN Stream("StatErr", tree[fullpath], TRUE)
    ELSE Stream("nil", tree[fullpath], TRUE)

\* http.ServeContent's preconditions, the response carrying no ETag: 412 for an
\* If-Match or a later modification than If-Unmodified-Since, 304 for no later
\* modification than If-Modified-Since when there is no If-None-Match, else 0.  Dates
\* that do not parse are ignored, and so are all dates when modtime is the zero time (0).
servePreconditions(req, modtime) ==
    IF req.IfMatch # "" THEN StatusPreconditionFailed
    ELSE IF modtime # 0 /\ ParseTime(req.IfUnmodifiedSince).ok
            /\ modtime > ParseTime(req.IfUnmodifiedSince).t
    THEN StatusPreconditionFailed
    ELSE IF req.IfNoneMatch = "" /\ modtime # 0 /\ ParseTime(req.IfModifiedSince).ok
            /\ modtime <= ParseTime(req.IfModifiedSince).t
    THEN StatusNotModified
    ELSE 0

\* http.Error: the status and the message as the body
HttpError(w, msg, code) == Write(WriteHeader(w, code), msg)

\* the content is sent: 200, and the body unless the method is HEAD
serveSend(w, method, body) ==
    IF method = "HEAD" \/ body = "" THEN WriteHeader(w, StatusOK)
    ELSE Write(WriteHeader(w, StatusOK), body)

serveChecked(w, pre, method, body, seekFails) ==
    IF pre # 0 THEN WriteHeader(w, pre)
    ELSE IF seekFails THEN HttpError(w, "seeker can't seek\n", StatusInternalServerError)
    ELSE serveSend(w, method, body)

\* http.ServeContent(w, r, name, modtime, content), the request carrying no Range
ServeContent(w, req, modtime, body, seekFails) ==
    serveChecked(IF modtime = 0 THEN w ELSE HeaderAdd(w, "Last-Modified", FormatTime(modtime)),
                 servePreconditions(req, modtime), req.Method, body, seekFails)

\* the bytes that can be read from a content: a directory gives none
Readable(content, body) == IF content = "file" THEN body ELSE ""

\* LocalFilesystemBackend.HandleHttpFileDownload of unnamed/part_003
localHandleServed(obj, req, file, seekFails) ==
    IF obj.err # "nil"
    THEN Handled(WriteHeader(NewResponseWriter,
                             IF obj.err = "NotExist" THEN StatusNotFound
                             ELSE StatusInternalServerError),
                 1, obj.err, FALSE, FALSE, FALSE)
    ELSE Handled(ServeContent(NewResponseWriter, req, file.ModTime,
                              Readable(obj.content, file.Body), seekFails),
                 1, "nil", FALSE, TRUE, FALSE)

localHandleHttpFileDownload(tree, req, path, file, fault, seekFails) ==
    localHandleServed(localGetObjectStream(tree, Join(<<RootDirectory, path>>), fault),
                      req, file, seekFails)

\* the status calls of the handler of local.go after a failed GetObjectStream: 404 when
\* the path does not exist, then 500 in every case, and the handler goes on
localGoFailed(w, err) ==
    WriteHeader(IF err = "NotExist" THEN WriteHeader(w, StatusNotFound) ELSE w,
                StatusInternalServerError)

\* the type assertion on a nil Content panics; else the content is served, and never
\* closed
localGoServed(w, obj, req, file, seekFails) ==
    IF obj.content = "nil" THEN Handled(w, 1, obj.err, FALSE, FALSE, TRUE)
    ELSE Handled(ServeContent(w, req, IF obj.err = "nil" THEN file.ModTime ELSE 0,
                              Readable(obj.content, file.Body), seekFails),
                 1, obj.err, FALSE, FALSE, FALSE)

localGoHandleServed(obj, req, file, seekFails) ==
    localGoServed(IF obj.err # "nil" THEN localGoFailed(NewResponseWriter, obj.err)
                  ELSE NewResponseWriter,
                  obj, req, file, seekFails)

\* LocalFilesystemBackend.HandleHttpFileDownload of local.go
localGoHandleHttpFileDownload(tree, req, path, file, fault, seekFails) ==
    localGoHandleServed(localGoGetObjectStream(tree, Join(<<RootDirectory, path>>), fault),
                        req, file, seekFails)

(***************************************************************************)
(* The downloads tried.                                                    *)
(***************************************************************************)
\* the requests: the method and the conditional headers, dates in each of the layouts
\* and dates that are none
Requests ==
    [Method : {"GET", "HEAD"},
     IfModifiedSince : {"", TimeFormatDates[1], Rfc850Dates[3], "soon"},
     IfUnmodifiedSince : {"", AnsiCDates[1], "2006-01-02"},
     IfMatch : {"", "b"},
     IfNoneMatch : {"", "a"}]

\* the bodies of the objects
BodyBytes == "abcdefgh"
Bodies == {SubSeq(BodyBytes, 1, n) : n \in 0..MaxBody}

\* the Content-Range values a result can carry for a body: the total is the size of the
\* body, or more, or "*", or spaced, or signed, or missing, or the value is empty
RangesOf(body) ==
    {"bytes 0-" \o FormatInt(Len(body) - 1) \o tail :
        tail \in {"/" \o FormatInt(Len(body)), "/" \o FormatInt(Len(body) + 3), "/*",
                  "/ " \o FormatInt(Len(body) + 3) \o " ", "/+" \o FormatInt(Len(body)),
                  ""}}
    \cup {""}

\* a result of GetObject: the metadata all there or all nil
S3Result(body, contentLength, contentRange, lastModified, meta) ==
    [Body |-> body, ContentLength |-> contentLength, ContentRange |-> contentRange,
     LastModified |-> lastModified, ETag |-> <<"a">>,
     CacheControl |-> meta, Expires |-> meta, ContentDisposition |-> meta,
     ContentEncoding |-> meta, ContentLanguage |-> meta, ContentType |-> meta]

S3Results ==
    {S3Result(body, cl, <<>>, lm, meta) :
        body \in Bodies, cl \in {<<>>}, lm \in {<<>>, <<2>>}, meta \in {<<>>, <<"m">>}}
    \cup {S3Result(body, <<Len(body)>>, <<>>, lm, meta) :
             body \in Bodies, lm \in {<<>>, <<2>>}, meta \in {<<>>, <<"m">>}}
    \cup {S3Result(SubSeq(BodyBytes, 1, MaxBody), cl, <<cr>>, <<2>>, <<"m">>) :
             cl \in {<<>>, <<MaxBody>>}, cr \in RangesOf(SubSeq(BodyBytes, 1, MaxBody))}

\* the files of the local tree: the body and the modification time
LocalFileStates == [Body : Bodies, ModTime : {2}]

\* the paths downloaded: an object (a file), a directory, nothing
DownloadPaths == {"d/x", "d", "e"}

InitHttp ==
    /\ backend \in {"s3", "local", "local.go"}
    /\ \/ /\ backend = "s3"
          /\ rootPrefix \in RootPrefixes
          /\ bucket = BucketOf(rootPrefix, {"d/x"})
          /\ fs = TreeOf({}, {})
       \/ /\ backend # "s3"
          /\ rootPrefix = ""
          /\ bucket = EmptyBucket
          /\ fs = TreeOf({"d/x"}, {"d"})
    /\ handles = <<>>
    /\ pages = <<>>
    /\ hist = <<>>
    /\ ret = NoRet
    /\ sessions = 0
    /\ rn = NoRename
    /\ calls = <<>>
    /\ before = EmptyBucket
    /\ rw = NoExchange
    /\ sd = NoDiff
    /\ lo = NoListing
    /\ nx = NoRace

\* the exchange of a call: the request, the path, what the store holds and the faults
\* (exists: whether an object or a file is at the path), and what the handler did
Exchange(req, path, exists, out, fault, cut, res) ==
    [op |-> "HandleHttpFileDownload", req |-> req, path |-> path, exists |-> exists,
     out |-> out, fault |-> fault, cut |-> cut, w |-> res.w, getObject |-> res.getObject,
     err |-> res.err, copyErr |-> res.copyErr, closed |-> res.closed,
     panicked |-> res.panicked]

HandleHttpFileDownloadS3(req, path, out, fault, cut) ==
    /\ backend = "s3"
    /\ rw = NoExchange
    /\ cut <= Len(out.Body)
    /\ rw' = Exchange(req, path, cleanPrefix(Join(<<rootPrefix, path>>)) \in DOMAIN bucket,
                      out, fault, cut,
                      s3HandleHttpFileDownload(bucket, rootPrefix, req, path, out, fault, cut))
    /\ UNCHANGED <<storeVars, sd, lo, nx>>

HandleHttpFileDownloadLocal(req, path, file, fault, seekFails) ==
    /\ backend = "local"
    /\ rw = NoExchange
    /\ rw' = Exchange(req, path, Join(<<RootDirectory, path>>) \in DOMAIN fs, file, fault,
                      seekFails,
                      localHandleHttpFileDownload(fs, req, path, file, fault, seekFails))
    /\ UNCHANGED <<storeVars, sd, lo, nx>>

HandleHttpFileDownloadLocalGo(req, path, file, fault, seekFails) ==
    /\ backend = "local.go"
    /\ rw = NoExchange
    /\ rw' = Exchange(req, path, Join(<<RootDirectory, path>>) \in DOMAIN fs, file, fault,
                      seekFails,
                      localGoHandleHttpFileDownload(fs, req, path, file, fault, seekFails))
    /\ UNCHANGED <<storeVars, sd, lo, nx>>

\* the paths of a bucket: an object, nothing
DownloadKeys == {"d/x", "e"}

\* one download is tried: the handlers keep nothing from one call to the next
NextHttp ==
    \/ /\ rw = NoExchange
       /\ backend = "s3"
       /\ \E req \in Requests, path \in DownloadKeys, out \in S3Results, fault \in S3Faults,
             cut \in 0..MaxBody : HandleHttpFileDownloadS3(req, path, out, fault, cut)
    \/ /\ rw = NoExchange
       /\ backend = "local"
       /\ \E req \in Requests, path \in DownloadPaths, file \in LocalFileStates,
             fault \in {"none", "open", "stat"}, seekFails \in BOOLEAN :
             HandleHttpFileDownloadLocal(req, path, file, fault, seekFails)
    \/ /\ rw = NoExchange
       /\ backend = "local.go"
       /\ \E req \in Requests, path \in DownloadPaths, file \in LocalFileStates,
             fault \in {"none", "open", "stat"}, seekFails \in BOOLEAN :
             HandleHttpFileDownloadLocalGo(req, path, file, fault, seekFails)

SpecHttp == InitHttp /\ [][NextHttp]_vars

(***************************************************************************)
(* The download claims.                                                    *)
(***************************************************************************)
\* a download served by the S3 handler
S3Download == backend = "s3" /\ rw.op = "HandleHttpFileDownload"

\* the total size of a Content-Range: what follows the "/", as a number
RangeTotal(contentRange) ==
    IF Len(SplitSlash(contentRange)) > 1
    THEN ParseInt(TrimSpace(SplitSlash(contentRange)[2]))
    ELSE [ok |-> FALSE, n |-> 0]

\* the result carries a Content-Range whose total size is not its Content-Length
IsSubrange(out) ==
    /\ out.ContentRange # <<>>
    /\ out.ContentLength # <<>>
    /\ RangeTotal(out.ContentRange[1]).ok
    /\ RangeTotal(out.ContentRange[1]).n # out.ContentLength[1]

\* C11: in the S3 handler, when the backend read succeeds, the status the client
\* receives is 206 exactly when the result carries a Content-Range whose total size
\* differs from the Content-Length, and 200 otherwise, for HEAD and for GET alike.
C11_PartialContentStatus ==
    (S3Download /\ rw.err = "nil" /\ ~rw.copyErr)
        => rw.w.status = IF IsSubrange(rw.out) THEN StatusPartialContent ELSE StatusOK

\* C12: in the S3 handler a failed GetObject is mapped to a status and no body is
\* written: NoSuchKey gives 404, NotModified 304, PreconditionFailed 412, and every
\* other error, AWS error or not, 400.
C12_ErrorStatus ==
    (S3Download /\ rw.getObject = 1 /\ rw.err # "nil")
        => /\ rw.w.body = ""
           /\ rw.w.ignored = 0
           /\ rw.err = "NoSuchKey" => rw.w.status = 404
           /\ rw.err = "NotModified" => rw.w.status = 304
           /\ rw.err = "PreconditionFailed" => rw.w.status = 412
           /\ rw.err \notin {"NoSuchKey", "NotModified", "PreconditionFailed"}
                 => rw.w.status = 400

\* an If-Modified-Since later than the object's modification is answered 304 and no
\* body
C12_Witness ==
    /\ S3Download
    /\ rw.exists
    /\ rw.fault = "none"
    /\ rw.req.IfModifiedSince = Rfc850Dates[3]
    /\ rw.req.IfNoneMatch = ""
    /\ rw.out.LastModified = <<2>>
    /\ rw.out.Body # ""
    /\ rw.err = "NotModified"
    /\ rw.w.status = 304
    /\ rw.w.body = ""

\* a date header that is there and is not an HTTP-date in any of the three layouts
Malformed(header) == header # "" /\ ~ParseTime(header).ok

\* C13: in the S3 handler an If-Modified-Since or If-Unmodified-Since header that is
\* not empty and not a valid HTTP-date ends the request with status 400, and GetObject
\* is not called at all.
C13_MalformedDate ==
    (S3Download /\ (Malformed(rw.req.IfModifiedSince) \/ Malformed(rw.req.IfUnmodifiedSince)))
        => rw.w.status = 400 /\ rw.getObject = 0 /\ rw.w.body = ""

\* the second date is malformed, the first is a date, and the object exists
C13_Witness ==
    /\ S3Download
    /\ rw.exists
    /\ rw.fault = "none"
    /\ rw.req.IfModifiedSince = TimeFormatDates[1]
    /\ rw.req.IfUnmodifiedSince = "2006-01-02"
    /\ rw.w.status = 400
    /\ rw.getObject = 0

\* C14: every download, of the S3 and of the local filesystem backend, whatever the
\* outcome of the retrieval, finishes after emitting a status and does not panic, and
\* when the retrieval failed nothing follows the status: the stream is not served.
C14_FailureIsAStatus ==
    rw.op = "HandleHttpFileDownload"
        => /\ ~rw.panicked
           /\ rw.w.status # 0
           /\ rw.err \notin {"nil", "none"} => rw.w.body = "" /\ rw.w.ignored = 0

\* C15: in the S3 handler the body of the object is written to the response exactly
\* when the method is not HEAD: a HEAD request gets the headers and the status and no
\* byte of the body, any other request gets the bytes read from the body.
C15_BodyUnlessHead ==
    (S3Download /\ rw.err = "nil")
        => /\ rw.req.Method = "HEAD"
                 => rw.w.body = "" /\ rw.w.status = s3HttpStatus(rw.out)
                    /\ <<"ETag", "a">> \in rw.w.header
           /\ rw.req.Method # "HEAD"
                 => rw.w.body = SubSeq(rw.out.Body, 1, rw.cut)
                    /\ (~rw.copyErr => rw.w.body = rw.out.Body)

\* a HEAD request for an object whose body is not empty
C15_Witness ==
    /\ S3Download
    /\ rw.err = "nil"
    /\ rw.req.Method = "HEAD"
    /\ rw.out.Body # ""
    /\ rw.cut = Len(rw.out.Body)
    /\ rw.w.body = ""
    /\ rw.w.status = StatusPartialContent

(***************************************************************************)
(* GetObjectSliceDiff.  An Object is [Path, LastModified]: the content     *)
(* plays no part.  Times and durations are whole numbers of one unit; the  *)
(* values tried are far from the range where time.Time.Sub saturates.      *)
(***************************************************************************)
MaxSlice == 2

\* the objects of a slice, in order
ObjectsOf(objs) == {objs[i] : i \in DOMAIN objs}
PathsOf(objs) == {objs[i].Path : i \in DOMAIN objs}

\* the map filled by "for _, o := range objs { m[o.Path] = o }": the last object of
\* each path stays
MapOf(objs) ==
    [path \in PathsOf(objs) |->
        objs[CHOOSE i \in DOMAIN objs :
                /\ objs[i].Path = path
                /\ \A j \in DOMAIN objs : objs[j].Path = path => j <= i]]

\* time.Time.Sub
Sub(t, u) == t - u

\* a variant: a delta equal to the tolerance is an update
IsUpdated_AtLeast(c, p, timestampTolerance) ==
    Sub(c.LastModified, p.LastModified) >= timestampTolerance

\* c is considered as updated since p
IsUpdated(c, p, timestampTolerance) ==
    Sub(c.LastModified, p.LastModified) > timestampTolerance

EmptyDiff == [Change |-> FALSE, Removed |-> <<>>, Added |-> <<>>, Updated |-> <<>>]

\* a variant: an object that is gone is not marked
stepPrev_NoRemoved(diff, p, cos, timestampTolerance) ==
    IF p.Path \in DOMAIN cos
    THEN IF IsUpdated(cos[p.Path], p, timestampTolerance)
         THEN [diff EXCEPT !.Updated = Append(@, cos[p.Path])]
         ELSE diff
    ELSE diff

\* the body of the loop over prev
stepPrev(diff, p, cos, timestampTolerance) ==
    IF p.Path \in DOMAIN cos
    THEN IF IsUpdated(cos[p.Path], p, timestampTolerance)
         THEN [diff EXCEPT !.Updated = Append(@, cos[p.Path])]
         ELSE diff
    ELSE [diff EXCEPT !.Removed = Append(@, p)]

RECURSIVE diffPrev(_, _, _, _)
diffPrev(diff, prev, cos, timestampTolerance) ==
    IF prev = <<>> THEN diff
    ELSE diffPrev(stepPrev(diff, Head(prev), cos, timestampTolerance), Tail(prev), cos,
                  timestampTolerance)

\* a variant: the objects found in prev are the ones marked as added
stepCurr_FoundAdded(diff, c, pos) ==
    IF c.Path \in DOMAIN pos THEN [diff EXCEPT !.Added = Append(@, c)] ELSE diff

\* the body of the loop over curr
stepCurr(diff, c, pos) ==
    IF c.Path \notin DOMAIN pos THEN [diff EXCEPT !.Added = Append(@, c)] ELSE diff

RECURSIVE diffCurr(_, _, _)
diffCurr(diff, curr, pos) ==
    IF curr = <<>> THEN diff
    ELSE diffCurr(stepCurr(diff, Head(curr), pos), Tail(curr), pos)

\* a variant: the updated objects do not count as a change
withChange_UpdatedIgnored(diff) ==
    [diff EXCEPT !.Change = Len(diff.Removed) + Len(diff.Added) > 0]

withChange(diff) ==
    [diff EXCEPT !.Change = Len(diff.Removed) + Len(diff.Added) + Len(diff.Updated) > 0]

GetObjectSliceDiff(prev, curr, timestampTolerance) ==
    withChange(diffCurr(diffPrev(EmptyDiff, prev, MapOf(curr), timestampTolerance), curr,
                        MapOf(prev)))

\* the slices and the tolerances tried: a path can be in a slice more than once, and a
\* tolerance can be negative
DiffPaths == {"a", "b", "c"}
DiffTimes == {0, 1}
Tolerances == {-1, 0, 1}
Objects == [Path : DiffPaths, LastModified : DiffTimes]
Slices == UNION {[1..n -> Objects] : n \in 0..MaxSlice}

InitDiff ==
    /\ backend = "s3"
    /\ rootPrefix = ""
    /\ bucket = EmptyBucket
    /\ fs = TreeOf({}, {})
    /\ handles = <<>>
    /\ pages = <<>>
    /\ hist = <<>>
    /\ ret = NoRet
    /\ sessions = 0
    /\ rn = NoRename
    /\ calls = <<>>
    /\ before = EmptyBucket
    /\ rw = NoExchange
    /\ lo = NoListing
    /\ nx = NoRace
    /\ \E prev \in Slices, curr \in Slices, timestampTolerance \in Tolerances :
          sd = [op |-> "input", prev |-> prev, curr |-> curr,
                timestampTolerance |-> timestampTolerance, diff |-> EmptyDiff]

\* the function is applied to the slices drawn
GetObjectSliceDiffCall ==
    /\ sd.op = "input"
    /\ sd' = [sd EXCEPT !.op = "GetObjectSliceDiff",
                        !.diff = GetObjectSliceDiff(sd.prev, sd.curr, sd.timestampTolerance)]
    /\ UNCHANGED <<storeVars, rw, lo, nx>>

NextDiff == GetObjectSliceDiffCall

SpecDiff == InitDiff /\ [][NextDiff]_vars

(***************************************************************************)
(* The diff claims.                                                        *)
(***************************************************************************)
Diffed == sd.op = "GetObjectSliceDiff"

\* the objects of a slice whose path is in none of the paths, in the order of the slice
NotIn(objs, paths) ==
    SelectSeq(objs, LAMBDA o : o.Path \notin paths)

\* C16: Removed is exactly the objects of prev whose path is the path of no object of
\* curr, and Added is exactly the objects of curr whose path is the path of no object
\* of prev.
C16_RemovedAndAdded ==
    Diffed => /\ sd.diff.Removed = NotIn(sd.prev, PathsOf(sd.curr))
              /\ sd.diff.Added = NotIn(sd.curr, PathsOf(sd.prev))

\* previous = [a, b], current = [b, c], tolerance 0: removed = [a], added = [c],
\* updated = [], changed
C16_Witness ==
    /\ Diffed
    /\ sd.prev = <<[Path |-> "a", LastModified |-> 0], [Path |-> "b", LastModified |-> 0]>>
    /\ sd.curr = <<[Path |-> "b", LastModified |-> 0], [Path |-> "c", LastModified |-> 0]>>
    /\ sd.timestampTolerance = 0
    /\ sd.diff.Removed = <<[Path |-> "a", LastModified |-> 0]>>
    /\ sd.diff.Added = <<[Path |-> "c", LastModified |-> 0]>>
    /\ sd.diff.Updated = <<>>
    /\ sd.diff.Change

\* the object of curr that stands for a path: where the path is there more than once,
\* the last one
CurrentOf(curr, path) ==
    curr[CHOOSE i \in DOMAIN curr :
            /\ curr[i].Path = path
            /\ \A j \in DOMAIN curr : j > i => curr[j].Path # path]

\* C17: a path that is in both slices is in Updated if and only if the LastModified of
\* its object of curr minus the LastModified of its object of prev is strictly greater
\* than the tolerance, and the entries of Updated are objects of curr.
C17_UpdatedBeyondTolerance ==
    Diffed =>
        /\ \A path \in PathsOf(sd.prev) \cap PathsOf(sd.curr) :
              path \in PathsOf(sd.diff.Updated)
                 <=> \E p \in ObjectsOf(sd.prev) :
                        /\ p.Path = path
                        /\ CurrentOf(sd.curr, path).LastModified - p.LastModified
                              > sd.timestampTolerance
        /\ \A u \in ObjectsOf(sd.diff.Updated) :
              /\ u.Path \in PathsOf(sd.prev)
              /\ u = CurrentOf(sd.curr, u.Path)

\* an object modified one unit later, the tolerance being 0: the object of curr is
\* placed in Updated
C17_Witness ==
    /\ Diffed
    /\ sd.prev = <<[Path |-> "a", LastModified |-> 0]>>
    /\ sd.curr = <<[Path |-> "a", LastModified |-> 1]>>
    /\ sd.timestampTolerance = 0
    /\ sd.diff.Updated = <<[Path |-> "a", LastModified |-> 1]>>
    /\ sd.diff.Change

\* C18: whatever the tolerance, a path of both slices whose current LastModified is
\* equal to or earlier than its previous LastModified is not placed in Updated, and the
\* diff of a slice with itself has Change = FALSE.
C18_NoForwardDeltaUnchanged ==
    Diffed =>
        /\ \A path \in PathsOf(sd.prev) \cap PathsOf(sd.curr) :
              (\A p \in ObjectsOf(sd.prev) :
                  p.Path = path => CurrentOf(sd.curr, path).LastModified <= p.LastModified)
                 => path \notin PathsOf(sd.diff.Updated)
        /\ sd.prev = sd.curr => ~sd.diff.Change

\* C19: in every result the paths of Removed, of Added and of Updated are pairwise
\* disjoint, also when a slice holds a path more than once.
C19_ListsDisjoint ==
    Diffed => /\ PathsOf(sd.diff.Removed) \cap PathsOf(sd.diff.Added) = {}
              /\ PathsOf(sd.diff.Removed) \cap PathsOf(sd.diff.Updated) = {}
              /\ PathsOf(sd.diff.Added) \cap PathsOf(sd.diff.Updated) = {}

\* a path is twice in prev, and the result has an updated and an added object
C19_Witness ==
    /\ Diffed
    /\ Len(sd.prev) = 2
    /\ sd.prev[1].Path = sd.prev[2].Path
    /\ sd.diff.Updated # <<>>
    /\ sd.diff.Added # <<>>

\* C20: in every result Change is true if and only if Removed, Added or Updated is
\* not empty.
C20_ChangeIffAny ==
    Diffed => (sd.diff.Change
                 <=> (sd.diff.Removed # <<>> \/ sd.diff.Added # <<>> \/ sd.diff.Updated # <<>>))

\* nothing is removed and nothing is added: the change is the update alone
C20_Witness ==
    /\ Diffed
    /\ sd.diff.Removed = <<>>
    /\ sd.diff.Added = <<>>
    /\ sd.diff.Updated # <<>>
    /\ sd.diff.Change

(***************************************************************************)
(* ListObjects of the bucket backends: AmazonS3Backend, OracleCSBackend,   *)
(* AlibabaCloudOSSBackend, TencentCloudCOSBackend and NeteaseNOSBackend.   *)
(* Every service lists the keys with a prefix in key order, at most its    *)
(* cap in one response, and tells whether more follow.  A call gives       *)
(* [objects, err, requests, returned].                                     *)
(***************************************************************************)
FlatBackends == {"s3", "oracle", "alibaba", "tencent", "netease"}

\* the prefix of the listing request: only the S3 backend trims it
flatPrefix(kind, root, prefix) ==
    IF kind = "s3" THEN cleanPrefix(Join(<<root, prefix>>)) ELSE Join(<<root, prefix>>)

\* the loop over the contents of a response: an object per key whose path is valid
RECURSIVE flatObjects(_, _)
flatObjects(prefix, contents) ==
    IF Len(contents) = 0 THEN <<>>
    ELSE IF objectPathIsInvalid(removePrefixFromObjectPath(prefix, Head(contents).name))
    THEN flatObjects(prefix, Tail(contents))
    ELSE <<[Path |-> removePrefixFromObjectPath(prefix, Head(contents).name)]>>
            \o flatObjects(prefix, Tail(contents))

Listed(objects, err, requests, returned) ==
    [objects |-> objects, err |-> err, requests |-> requests, returned |-> returned]

\* the marker of the next request: the S3 backend takes the last key of the contents,
\* the Alibaba and the Tencent backend the NextMarker of the response, the Netease
\* backend sends the request it sent before
flatMarker(kind, marker, out) ==
    IF kind = "s3" THEN out.Contents[Len(out.Contents)].name
    ELSE IF kind = "netease" THEN marker
    ELSE out.NextContinuationToken

RECURSIVE flatLoop(_, _, _, _, _, _, _)
RECURSIVE flatNext(_, _, _, _, _, _, _, _)

\* after a response: the Oracle backend makes one request; the others go on while the
\* response is truncated.  The Netease backend repeats its request for ever unless a
\* request fails.
flatNext(kind, bkt, prefix, marker, objects, n, failAt, out) ==
    IF kind = "oracle" \/ ~out.IsTruncated THEN Listed(objects, "nil", n, TRUE)
    ELSE IF kind = "netease" /\ failAt <= n THEN Listed(objects, "nil", n, FALSE)
    ELSE flatLoop(kind, bkt, prefix, flatMarker(kind, marker, out), objects, n, failAt)

\* a request of the loop, the n+1-th; request failAt fails (0: none)
flatLoop(kind, bkt, prefix, marker, objects, n, failAt) ==
    IF failAt = n + 1 THEN Listed(objects, "AwsErr", n + 1, TRUE)
    ELSE flatNext(kind, bkt, prefix, marker,
                  objects \o flatObjects(prefix,
                                         S3ListObjectsV2(bkt, prefix, FALSE, NoMaxKeys,
                                                         marker, "none").Contents),
                  n + 1, failAt,
                  S3ListObjectsV2(bkt, prefix, FALSE, NoMaxKeys, marker, "none"))

\* ListObjects(prefix) of a bucket backend
flatListObjects(kind, bkt, root, prefix, failAt) ==
    flatLoop(kind, bkt, flatPrefix(kind, root, prefix), "", <<>>, 0, failAt)

\* ListObjectsFromDirectory and RenamePrefixOrObject of the backends that do not
\* implement them: page is 0 for nil
unimplementedRename_Nil(path, newPath) == [page |-> 0, err |-> "nil", requests |-> 0]

unimplementedListObjectsFromDirectory(prefix, limit) ==
    [page |-> 0, err |-> ErrNotImplemented, requests |-> 0]
unimplementedRenamePrefixOrObject(path, newPath) ==
    [page |-> 0, err |-> ErrNotImplemented, requests |-> 0]

\* the keys of the buckets listed, below the root prefix: an object at the prefix, a
\* key that ends with the separator, keys below it at one level and deeper, and a key
\* that starts as the prefix does
FlatKeys == {"d", "d/", "d/x", "d/y", "d/s/z", "dx"}
FlatPaths == {"", "d", "d/", "e"}
Rooted(root, q) == IF root = "" THEN q ELSE root \o "/" \o q
FlatBucket(root, keys) == [k \in {Rooted(root, q) : q \in keys} |-> k]

InitList ==
    /\ backend \in FlatBackends
    /\ rootPrefix \in RootPrefixes
    /\ \E keys \in SUBSET FlatKeys : bucket = FlatBucket(rootPrefix, keys)
    /\ fs = TreeOf({}, {})
    /\ handles = <<>>
    /\ pages = <<>>
    /\ hist = <<>>
    /\ ret = NoRet
    /\ sessions = 0
    /\ rn = NoRename
    /\ calls = <<>>
    /\ before = EmptyBucket
    /\ rw = NoExchange
    /\ sd = NoDiff
    /\ lo = NoListing
    /\ nx = NoRace

ListObjects(prefix, failAt) ==
    /\ lo = NoListing
    /\ lo' = [op |-> "ListObjects", prefix |-> prefix, arg |-> "", faulted |-> failAt # 0,
              res |-> flatListObjects(backend, bucket, rootPrefix, prefix, failAt)]
    /\ UNCHANGED <<storeVars, rw, sd, nx>>

ListObjectsFromDirectoryUnimplemented(prefix, limit) ==
    /\ lo = NoListing
    /\ backend # "s3"
    /\ lo' = [op |-> "ListObjectsFromDirectory", prefix |-> prefix, arg |-> limit,
              faulted |-> FALSE,
              res |-> unimplementedListObjectsFromDirectory(prefix, limit)]
    /\ UNCHANGED <<storeVars, rw, sd, nx>>

RenamePrefixOrObjectUnimplemented(path, newPath) ==
    /\ lo = NoListing
    /\ backend # "s3"
    /\ lo' = [op |-> "RenamePrefixOrObject", prefix |-> path, arg |-> newPath,
              faulted |-> FALSE,
              res |-> unimplementedRenamePrefixOrObject(path, newPath)]
    /\ UNCHANGED <<storeVars, rw, sd, nx>>

\* one call is tried: the backends keep nothing from one call to the next
NextList ==
    \/ /\ lo = NoListing
       /\ \E prefix \in FlatPaths, failAt \in 0..2 : ListObjects(prefix, failAt)
    \/ /\ lo = NoListing
       /\ \E prefix \in FlatPaths, limit \in Limits :
             ListObjectsFromDirectoryUnimplemented(prefix, limit)
    \/ /\ lo = NoListing
       /\ \E path \in FlatPaths, newPath \in FlatPaths :
             RenamePrefixOrObjectUnimplemented(path, newPath)

SpecList == InitList /\ [][NextList]_vars

(***************************************************************************)
(* The claims of the flat listing.                                         *)
(***************************************************************************)
FlatListed == lo.op = "ListObjects" /\ lo.res.returned

\* the keys of the bucket a listing of the prefix covers, and what is left of each
\* when the prefix and the separator after it are taken off
KeysUnder(prefix) ==
    {k \in DOMAIN bucket : HasPrefix(k, flatPrefix(backend, rootPrefix, prefix))}
RelativeTo(prefix, k) ==
    removePrefixFromObjectPath(flatPrefix(backend, rootPrefix, prefix), k)

PageReturned == ret.op \in {"ListObjectsFromDirectory", "NextPage"} /\ ret.page # 0

\* the path of an entry of a page relative to the directory that was queried
EntryRel(prefix, entry) ==
    removePrefixFromObjectPath(cleanPrefix(Clean(prefix)), TrimLeftSlash(entry))

\* C22: every page of ListObjectsFromDirectory or NextPage lists in GetDirectories
\* only groupings one level below the queried directory, their paths without a
\* trailing "/", and in GetFiles only objects of exactly that level; no entry has a
\* path relative to the queried directory that is empty or holds a separator.
C22_PageLevels ==
    PageReturned =>
        /\ \A i \in DOMAIN pages[ret.page].directoriesRead :
              /\ ~HasSuffix(pages[ret.page].directoriesRead[i], "/")
              /\ ~objectPathIsInvalid(EntryRel(ret.prefix,
                                               pages[ret.page].directoriesRead[i]))
              /\ EntryRel(ret.prefix, pages[ret.page].directoriesRead[i])
                    \in ChildDirs(ret.prefix)
        /\ \A i \in DOMAIN pages[ret.page].filesRead :
              /\ ~objectPathIsInvalid(EntryRel(ret.prefix, pages[ret.page].filesRead[i]))
              /\ EntryRel(ret.prefix, pages[ret.page].filesRead[i])
                    \in ChildFiles(ret.prefix)

(***************************************************************************)
(* The path functions: a key is made of the backend's prefix and a path    *)
(* (cleanPrefix of Join), and the prefix is taken off a key again          *)
(* (removePrefixFromObjectPath).                                           *)
(***************************************************************************)
MaxPathLen == 4

\* the strings over a letter and the separator, up to a length
RECURSIVE PathsUpTo(_)
PathsUpTo(n) ==
    IF n = 0 THEN {""}
    ELSE PathsUpTo(n - 1) \cup {q \o c : q \in PathsUpTo(n - 1), c \in {"a", "/"}}

\* the prefixes a backend holds: its constructor has trimmed them
CleanRoots == {"", "r", "r/s"}

InitPath ==
    /\ backend = "s3"
    /\ rootPrefix \in CleanRoots
    /\ bucket = EmptyBucket
    /\ fs = TreeOf({}, {})
    /\ handles = <<>>
    /\ pages = <<>>
    /\ hist = <<>>
    /\ ret = NoRet
    /\ sessions = 0
    /\ rn = NoRename
    /\ calls = <<>>
    /\ before = EmptyBucket
    /\ rw = NoExchange
    /\ sd = NoDiff
    /\ \E path \in PathsUpTo(MaxPathLen) : lo = [op |-> "input", path |-> path]
    /\ nx = NoRace

\* the key of a path is made and the prefix is taken off it
PathRoundTrip ==
    /\ lo.op = "input"
    /\ lo' = [op |-> "PathRoundTrip", path |-> lo.path,
              key |-> cleanPrefix(Join(<<rootPrefix, lo.path>>)),
              rel |-> removePrefixFromObjectPath(
                          rootPrefix, cleanPrefix(Join(<<rootPrefix, lo.path>>)))]
    /\ UNCHANGED <<storeVars, rw, sd, nx>>

NextPath == PathRoundTrip

SpecPath == InitPath /\ [][NextPath]_vars

\* the cleaned form of a relative path: its segments that are not empty, joined by
\* single separators
RECURSIVE NonEmpty(_)
NonEmpty(segs) ==
    IF Len(segs) = 0 THEN <<>>
    ELSE IF Head(segs) = "" THEN NonEmpty(Tail(segs))
    ELSE <<Head(segs)>> \o NonEmpty(Tail(segs))
CleanForm(path) == JoinSlash(NonEmpty(SplitSlash(path)))

\* C23: for every root prefix r and every relative path p, the empty path and paths
\* with leading, trailing or repeated separators included,
\* removePrefixFromObjectPath(r, cleanPrefix(Join(r, p))) is the cleaned form of p.
C23_PathRoundTrip ==
    lo.op = "PathRoundTrip" => lo.rel = CleanForm(lo.path)

\* C24: every file handle that a call of the local filesystem backend opened is, when
\* the call returns, closed or handed to the caller in what is returned, on the error
\* exits too: after ListObjectsFromDirectory every open handle is the directory of the
\* page returned.
C24_HandlesReleased ==
    (backend = "local" /\ ret.op = "ListObjectsFromDirectory")
        => \A h \in DOMAIN handles :
              ret.page # 0 /\ pages[ret.page].directory = h

\* what a caller gets of NextPage on the page l in the current state: the page, if
\* one is returned, and the error
Got(n) == [page |-> IF n.page THEN <<n.r>> ELSE <<>>, err |-> n.err]

AdvanceOf(l, fault) ==
    IF l.kind = "s3"
    THEN Got(s3NextPage(l, bucket, rootPrefix, fault))
    ELSE Got(localNextPage(l, fs, HandleOf(l), fault))

\* the fields of a page other than its two lists
AdvanceFields(l) ==
    [kind |-> l.kind, prefix |-> l.prefix, limit |-> l.limit, directory |-> l.directory,
     continuationToken |-> l.continuationToken, nextPageCalled |-> l.nextPageCalled,
     isEOF |-> l.isEOF]

\* C25: FreeFromMemory empties the directory and file lists of a page and leaves what
\* is needed to advance as it was (prefix, limit, directory handle, continuation token,
\* nextPageCalled, isEOF): NextPage on the freed page returns the page and the error
\* it would have returned on the page before it was freed, whatever the store answers.
C25_FreeKeepsAdvance ==
    [][\A i \in DOMAIN pages :
          FreePage(i) =>
              /\ pages'[i].directoriesRead = <<>>
              /\ pages'[i].filesRead = <<>>
              /\ AdvanceFields(pages'[i]) = AdvanceFields(pages[i])
              /\ \A fault \in ListFaults \cup {"read"} :
                    AdvanceOf(pages'[i], fault) = AdvanceOf(pages[i], fault)]_vars

\* a truncated page that held entries has been freed and not yet advanced
C25_Witness ==
    \E i \in DOMAIN pages :
        /\ i = 1
        /\ hist[i].dirs \o hist[i].files # <<>>
        /\ pages[i].directoriesRead = <<>> /\ pages[i].filesRead = <<>>
        /\ IsTruncated(pages[i]) /\ ~pages[i].nextPageCalled
        /\ pages[i].kind = "s3" => pages[i].continuationToken # ""

\* the number of entries of a page, and of the entries a directory holds
PageSize(l) == Len(l.directoriesRead) + Len(l.filesRead)
DirectorySize(prefix) == Cardinality(ChildFiles(prefix)) + Cardinality(ChildDirs(prefix))

\* the number of entries the backend returns in one call when n are left: the service
\* answers with at most S3MaxKeys keys, the filesystem with all of them
OneCall(n) == IF backend = "s3" /\ n > S3MaxKeys THEN S3MaxKeys ELSE n

\* the number of entries reported up to the page i, that page included
ReportedUpTo(i) == Len(hist[i].dirs) + Len(hist[i].files)

\* C26: with limit > 0 every page returned by ListObjectsFromDirectory or NextPage
\* holds at most limit entries, directories and files together; with limit <= 0 a page
\* holds as many entries as the backend returns in one call, and following
\* IsTruncated() reaches the rest: the page is truncated exactly when entries are left.
C26_PageSize ==
    PageReturned =>
        /\ ret.limit > 0 => PageSize(pages[ret.page]) <= ret.limit
        /\ (ret.limit <= 0 /\ ~ret.fault) =>
              /\ PageSize(pages[ret.page])
                   = OneCall(DirectorySize(ret.prefix) - ReportedUpTo(ret.page)
                                + PageSize(pages[ret.page]))
              /\ IsTruncated(pages[ret.page])
                   <=> ReportedUpTo(ret.page) < DirectorySize(ret.prefix)

Copies == {i \in 1..Len(calls) : calls[i].op = "copy"}
\* the keys below path that the loop does not skip
Renamed(bkt, p) == {k \in UnderKeys(bkt, p) : k \notin {DirKey(p) \o "/", DirKey(p) \o "//"}}

\* C28: a rename of a directory whose listing is truncated, in which no request fails,
\* advances the continuation token from one listing request to the next, ends, and
\* copies and then deletes every object below path + "/" exactly once: no object is
\* copied twice and none is left out.
C28_RenameAcrossPages ==
    /\ ret.op = "RenamePrefixOrObject" /\ ret.kind = "prefix" /\ ~ret.fault /\ AllSucceeded
    /\ Cardinality(UnderKeys(before, ret.path)) > S3MaxKeys
    => /\ \A i \in Copies : \A j \in Copies : calls[i].src = calls[j].src => i = j
       /\ Len(calls) <= 2 * Cardinality(UnderKeys(before, ret.path))
       /\ rn.pc = "loop" /\ calls # <<>> => rn.continuationToken # ""
       /\ ret.done => /\ ret.err = "nil"
                      /\ Processed = Renamed(before, ret.path)

\* C30: when ListObjectsFromDirectory or NextPage returns a page that is at its end
\* (IsTruncated() = false) the error returned with it is io.EOF, and when the error
\* returned is nil the page returned is truncated.
C30_EndOfSequence ==
    PageReturned =>
        /\ ~IsTruncated(pages[ret.page]) => ret.err = "EOF"
        /\ ret.err = "nil" => IsTruncated(pages[ret.page])

(***************************************************************************)
(* Two callers of NextPage on one page.  The page returned by              *)
(* ListObjectsFromDirectory (pages[1]) is shared by two callers; NextPage  *)
(* is taken in its steps: the call is entered, nextPageCalled is tested,   *)
(* and the rest of the method runs up to its return, the assignment of     *)
(* nextPageCalled included.  nx holds per caller its position pc, whether  *)
(* the other caller had returned when it entered (after), and what it got. *)
(* The test and the assignment are unsynchronised: a test that races with  *)
(* the assignment of a call it overlaps reads the old or the new value.    *)
(***************************************************************************)
Callers == {1, 2}
Other(c) == 3 - c
NoGot == [page |-> <<>>, err |-> "none"]
RaceIdle == [op |-> "race", pc |-> <<"idle", "idle">>, after |-> <<FALSE, FALSE>>,
             got |-> <<NoGot, NoGot>>]
Race == IF nx = NoRace THEN RaceIdle ELSE nx

\* the shared page after a caller's NextPage ran to its return, were nextPageCalled
\* never assigned
raceMarked_Never(l, n) == l

\* the shared page after a caller's NextPage ran to its return with n: nextPageCalled
\* is assigned where the method assigns it
raceMarked(l, n) == [l EXCEPT !.nextPageCalled = @ \/ n.l.nextPageCalled]

\* the method after the test of nextPageCalled found it false
raceRest(l, fault) ==
    IF l.kind = "s3"
    THEN s3NextPage([l EXCEPT !.nextPageCalled = FALSE], bucket, rootPrefix,
                    IF fault THEN "AwsErr" ELSE "none")
    ELSE localNextPage([l EXCEPT !.nextPageCalled = FALSE], fs, HandleOf(l),
                       IF fault THEN "read" ELSE "none")

\* a caller calls NextPage on the shared page
NextPageEnter(c) ==
    /\ Len(pages) = 1
    /\ Race.pc[c] = "idle"
    /\ nx' = [Race EXCEPT !.pc[c] = "entered", !.after[c] = (Race.pc[Other(c)] = "done")]
    /\ UNCHANGED <<storeVars, rw, sd, lo>>

\* the test of nextPageCalled read seen: the call returns the error, or goes on
raceChecked(c, seen) ==
    IF seen
    THEN [nx EXCEPT !.pc[c] = "done", !.got[c] = [page |-> <<>>, err |-> ErrNextPageTwice]]
    ELSE [nx EXCEPT !.pc[c] = "checked"]

\* the caller tests nextPageCalled.  The value read is the one assigned, except that a
\* call overlapping the call that assigned it may still read the value before.
NextPageCheck(c, stale) ==
    /\ nx # NoRace
    /\ nx.pc[c] = "entered"
    /\ stale => pages[1].nextPageCalled /\ ~nx.after[c]
    /\ nx' = raceChecked(c, pages[1].nextPageCalled /\ ~stale)
    /\ UNCHANGED <<storeVars, rw, sd, lo>>

\* the rest of the method: the successor is built, filled from the store, the shared
\* page marked, and the call returns
NextPageRest(c, fault) ==
    /\ nx # NoRace
    /\ nx.pc[c] = "checked"
    /\ nx' = [nx EXCEPT !.pc[c] = "done", !.got[c] = Got(raceRest(pages[1], fault))]
    /\ pages' = <<raceMarked(pages[1], raceRest(pages[1], fault))>>
    /\ handles' = IF pages[1].directory = 0 THEN handles
                  ELSE [handles EXCEPT ![1].pos = raceRest(pages[1], fault).pos]
    /\ UNCHANGED <<backend, rootPrefix, bucket, fs, hist, ret, sessions, rn, calls, before>>
    /\ UNCHANGED <<rw, sd, lo>>

NextRace ==
    \/ /\ nx = NoRace
       /\ \E prefix \in ListPaths, limit \in Limits, hf \in S3Faults, lf \in ListFaults :
             ListObjectsFromDirectoryS3(prefix, limit, hf, lf)
    \/ /\ nx = NoRace
       /\ \E prefix \in ListPaths, limit \in Limits, f \in LocalFaults :
             ListObjectsFromDirectoryLocal(prefix, limit, f)
    \/ \E c \in Callers : NextPageEnter(c)
    \/ \E c \in Callers, stale \in BOOLEAN : NextPageCheck(c, stale)
    \/ \E c \in Callers, fault \in BOOLEAN : NextPageRest(c, fault)

SpecRace == InitPager /\ [][NextRace]_vars

\* both callers received a successor of the shared page, which was truncated
BothAdvanced ==
    /\ nx # NoRace
    /\ IsTruncated(pages[1])
    /\ \A c \in Callers : nx.pc[c] = "done" /\ nx.got[c].page # <<>>

\* C29: the test of nextPageCalled and its assignment are not atomic: two callers of
\* NextPage on one truncated page can both pass the test and both receive a successor
\* page.  That happens only when the calls overlap: of two callers of which one calls
\* after the other has returned, at most one receives a successor.
C29_ConcurrentAdvance ==
    BothAdvanced => \A c \in Callers : ~nx.after[c]

\* both callers hold a successor page of a truncated page, returned without an error
C29_Witness ==
    /\ BothAdvanced
    /\ \A c \in Callers : nx.got[c].err \in {"nil", "EOF"}
    /\ pages[1].nextPageCalled

\* C35: a NextPage call that fails with an error of the store or of the filesystem
\* other than io.EOF leaves the page unconsumed: no successor page is returned and
\* nextPageCalled stays false, so that NextPage can be called on the page again; on the
\* S3 pager and on the local filesystem pager alike.
C35_FailedNextPageUnconsumed ==
    (ret.op = "NextPage" /\ ret.err \notin {"nil", "EOF", ErrNextPageTwice})
        => /\ ret.page = 0
           /\ ~pages[ret.on].nextPageCalled

(***************************************************************************)
(* More claims of the flat listing.                                        *)
(***************************************************************************)
\* the keys a listing of the prefix covers whose relative path the filter keeps
Matching(prefix) == {k \in KeysUnder(prefix) : ~objectPathIsInvalid(RelativeTo(prefix, k))}
ObjectPaths(objects) == {objects[i].Path : i \in DOMAIN objects}

\* C31: ListObjects of the backends that loop over result pages (S3, Alibaba, Tencent,
\* Netease) returns on every bucket when no request fails, also when the store reports
\* a page as truncated: it issues no more requests than there are keys to cover (and
\* one), and returns each matching object exactly once.
C31_ListObjectsTerminates ==
    (lo.op = "ListObjects" /\ backend # "oracle" /\ ~lo.faulted)
        => /\ lo.res.returned
           /\ lo.res.requests <= Cardinality(KeysUnder(lo.prefix)) + 1
           /\ Len(lo.res.objects) = Cardinality(Matching(lo.prefix))
           /\ ObjectPaths(lo.res.objects)
                = {RelativeTo(lo.prefix, k) : k \in Matching(lo.prefix)}

\* the key of a direct child of the listed prefix
ChildKey(prefix, path) ==
    IF flatPrefix(backend, rootPrefix, prefix) = "" THEN path
    ELSE flatPrefix(backend, rootPrefix, prefix) \o "/" \o path
\* the paths of the keys of the bucket that are direct children of the listed prefix
DirectChildren(prefix) ==
    {q \in {RelativeTo(prefix, k) : k \in DOMAIN bucket} :
        ~objectPathIsInvalid(q) /\ ChildKey(prefix, q) \in DOMAIN bucket}

\* C33: every object that ListObjects(prefix) of the S3 backend returns is a direct
\* child of the prefix: its key is cleanPrefix(Join(root, prefix)) + "/" + its path.  A
\* key that starts with the characters of the prefix without the separator after them
\* is not returned.
C33_DirectChildrenOnly ==
    (FlatListed /\ backend = "s3")
        => /\ ObjectPaths(lo.res.objects) \subseteq DirectChildren(lo.prefix)
           /\ Len(lo.res.objects) <= Cardinality(DirectChildren(lo.prefix))

(***************************************************************************)
(* More claims of the rename.                                              *)
(***************************************************************************)
\* C34: a rename of a path at which no object exists and below which none does, to a
\* path that is not occupied, in which no request fails, returns nil, issues no copy
\* and no delete and leaves every object of the bucket as it was.
C34_RenameOfNothing ==
    /\ RenameDone /\ ~ret.fault
    /\ ~Occupied(before, ret.path) /\ ~Occupied(before, ret.newPath)
    => /\ ret.err = "nil"
       /\ calls = <<>>
       /\ bucket = before

\* a rename of a path that is nothing to another path, in a bucket that holds an object
C34_Witness ==
    /\ RenameDone /\ ~ret.fault /\ ret.kind = "prefix"
    /\ ~Occupied(before, ret.path) /\ ~Occupied(before, ret.newPath)
    /\ ret.path = "d" /\ ret.newPath = "e"
    /\ DOMAIN before # {}
    /\ ret.err = "nil"

(***************************************************************************)
(* More claims of the HTTP delivery.                                       *)
(***************************************************************************)
\* C32: in every HandleHttpFileDownload call of the S3 and of the local filesystem
\* handlers the status of the response is committed exactly once: a status is
\* committed, and no WriteHeader call comes after the status was committed by an
\* earlier WriteHeader or by the first write of the body, so that the status the
\* handler computed is the one committed.
C32_StatusCommittedOnce ==
    rw.op = "HandleHttpFileDownload" => rw.w.status # 0 /\ rw.w.ignored = 0

====
